---- MODULE Spec2Model ----
(***************************************************************************)
(* Model of the blog generation / validation server.                       *)
(*                                                                         *)
(*   server.py   BlogBusinessRules (the four field checks),                *)
(*               BlogGenerator (outline builder, validate_blog_post),      *)
(*               handle_call_tool (the tool-protocol dispatcher)           *)
(*   blog_generator.py  EnhancedBlogGenerator (the content synthesizer)    *)
(*   blog.py     the HTTP routes /generate-outline, /generate-complete,    *)
(*               validate_blog_content (the HTTP validator)                *)
(*                                                                         *)
(* A Python str is a sequence of one-character strings; the checks are     *)
(* computed on the characters exactly as len(), str.split() and the        *)
(* regular expressions of the source compute them.  A dict is a function   *)
(* whose DOMAIN is its key set, a list is a sequence.                      *)
(***************************************************************************)
EXTENDS Integers, Sequences, FiniteSets, TLC

VARIABLES
    op,            \* name of the operation that ran last
    input,         \* the argument it was called with
    shape,         \* how the test input was built (ghost: lengths, word counts, fragments)
    ret,           \* the value it returned
    blog_post,     \* the mapping a client holds and submits to the tool validator
    seen,          \* ghost: the first report returned for blog_post, and what followed it
    last_outline,  \* ghost: the outline the last handler built, as it served or handed it on
    random_state   \* the generator behind random.choice: the number of values drawn from it

vars == <<op, input, shape, ret, blog_post, seen, last_outline, random_state>>

None == [none |-> TRUE]

NotSeen == [first |-> None, between |-> FALSE, again |-> FALSE]

(***************************************************************************)
(* Bounds of the enumerated inputs.                                        *)
(***************************************************************************)
MaxTitleLen == 82
MaxWords == 302
MaxFrags == 3
MaxClock == 1

(***************************************************************************)
(* Thresholds written in the source.                                       *)
(***************************************************************************)
TitleMin == 40
TitleMax == 80
IntroMin == 150
IntroMax == 300
ConclMin == 100
ConclMax == 200
MinSections == 3
MinLinks == 3

(***************************************************************************)
(* Strings.                                                                *)
(***************************************************************************)
Rep(c, n) == [i \in 1..n |-> c]

IsSpace(c) == c \in {" ", "\t", "\n", "\r", "\f"}

\* variant: len(s.split(' ')), one more than the number of blanks
SplitLenOnBlank(s) == Cardinality({i \in 1..Len(s) : s[i] = " "}) + 1

\* len(s.split()): the number of maximal runs of non-whitespace characters
SplitLen(s) ==
    Cardinality({i \in 1..Len(s) : ~IsSpace(s[i]) /\ (i = 1 \/ IsSpace(s[i-1]))})

\* the literal lit occurs in s at position i
LitAt(s, i, lit) ==
    /\ i >= 1
    /\ i + Len(lit) - 1 <= Len(s)
    /\ \A k \in 1..Len(lit) : s[i + k - 1] = lit[k]

\* ^ under re.MULTILINE: start of the string or just after a line feed
LineStart(s, i) == i = 1 \/ s[i-1] = "\n"

\* the grave accent character U+0060 (a string literal cannot hold it)
BQ == "GRAVE"

HTTP == <<"h", "t", "t", "p", ":", "/", "/">>
HTTPS == <<"h", "t", "t", "p", "s", ":", "/", "/">>
LOCALHOST == <<"l", "o", "c", "a", "l", "h", "o", "s", "t">>

\* re.search(r'[?:]', title)
HasQuestionOrColon(title) == \E i \in 1..Len(title) : title[i] \in {"?", ":"}

(***************************************************************************)
(* BlogBusinessRules.validate_title                                        *)
(***************************************************************************)
\* variant: a title of exactly 40 characters counts as too short
validate_title_le(title) ==
    LET errors == IF Len(title) <= TitleMin
                    THEN << <<"Title too short", Len(title), TitleMin>> >>
                  ELSE IF Len(title) > TitleMax
                    THEN << <<"Title too long", Len(title), TitleMax>> >>
                  ELSE << >>
        warnings == IF ~HasQuestionOrColon(title)
                      THEN << "Title should ideally pose a question or clearly state the problem/solution" >>
                      ELSE << >>
    IN [valid |-> Len(errors) = 0, errors |-> errors, warnings |-> warnings,
        length |-> Len(title)]

validate_title(title) ==
    LET errors == IF Len(title) < TitleMin
                    THEN << <<"Title too short", Len(title), TitleMin>> >>
                  ELSE IF Len(title) > TitleMax
                    THEN << <<"Title too long", Len(title), TitleMax>> >>
                  ELSE << >>
        warnings == IF ~HasQuestionOrColon(title)
                      THEN << "Title should ideally pose a question or clearly state the problem/solution" >>
                      ELSE << >>
    IN [valid |-> Len(errors) = 0, errors |-> errors, warnings |-> warnings,
        length |-> Len(title)]

(***************************************************************************)
(* BlogBusinessRules.validate_introduction / validate_conclusion           *)
(***************************************************************************)
\* variant: an introduction of exactly the maximum is too long already
validate_introduction_exclusive(intro) ==
    LET word_count == SplitLen(intro)
        errors == IF word_count < IntroMin
                    THEN << <<"Introduction too short", word_count, IntroMin>> >>
                  ELSE IF word_count >= IntroMax
                    THEN << <<"Introduction too long", word_count, IntroMax>> >>
                  ELSE << >>
    IN [valid |-> Len(errors) = 0, errors |-> errors, warnings |-> << >>,
        word_count |-> word_count]

validate_introduction(intro) ==
    LET word_count == SplitLen(intro)
        errors == IF word_count < IntroMin
                    THEN << <<"Introduction too short", word_count, IntroMin>> >>
                  ELSE IF word_count > IntroMax
                    THEN << <<"Introduction too long", word_count, IntroMax>> >>
                  ELSE << >>
    IN [valid |-> Len(errors) = 0, errors |-> errors, warnings |-> << >>,
        word_count |-> word_count]

\* variant: the upper limit is not checked
validate_conclusion_nomax(conclusion) ==
    LET word_count == SplitLen(conclusion)
        errors == IF word_count < ConclMin
                    THEN << <<"Conclusion too short", word_count, ConclMin>> >>
                  ELSE << >>
    IN [valid |-> Len(errors) = 0, errors |-> errors, warnings |-> << >>,
        word_count |-> word_count]

validate_conclusion(conclusion) ==
    LET word_count == SplitLen(conclusion)
        errors == IF word_count < ConclMin
                    THEN << <<"Conclusion too short", word_count, ConclMin>> >>
                  ELSE IF word_count > ConclMax
                    THEN << <<"Conclusion too long", word_count, ConclMax>> >>
                  ELSE << >>
    IN [valid |-> Len(errors) = 0, errors |-> errors, warnings |-> << >>,
        word_count |-> word_count]

(***************************************************************************)
(* BlogBusinessRules.validate_content_structure                            *)
(***************************************************************************)
Min(S) == CHOOSE x \in S : \A y \in S : x <= y

NoNewline(s, a, b) == \A k \in a..b : s[k] # "\n"

\* the matches of a scan that tries the positions of At from left to right and
\* resumes after each match: the first position at or after i is a match, and
\* the scan goes on width positions later
RECURSIVE CountFrom(_, _, _)
CountFrom(At, width, i) ==
    LET rest == {j \in At : j >= i}
    IN IF rest = {} THEN 0 ELSE 1 + CountFrom(At, width, Min(rest) + width)

\* len(re.findall(lit, s)) for a literal: non-overlapping, left to right
CountLit(s, lit, i) ==
    CountFrom({j \in i..Len(s) : LitAt(s, j, lit)}, Len(lit), i)

\* variant: the pattern lacks the blank, so deeper headings count as well
MainSectionsNoBlank(content) ==
    Cardinality({i \in 1..Len(content) :
                    LineStart(content, i) /\ LitAt(content, i, <<"#", "#">>)})

\* len(re.findall(r'^## ', content, re.MULTILINE))
MainSections(content) ==
    Cardinality({i \in 1..Len(content) :
                    LineStart(content, i) /\ LitAt(content, i, <<"#", "#", " ">>)})

\* len(re.findall(three grave accents, content))
CodeBlocks(content) == CountLit(content, <<BQ, BQ, BQ>>, 1)

\* variant: the pattern lacks the "?", so only https matches
SchemeEndHttpsOnly(s, j) == IF LitAt(s, j, HTTPS) THEN j + 8 ELSE 0

\* https?:// at position j: the position just after it, 0 when it does not match
SchemeEnd(s, j) ==
    IF LitAt(s, j, HTTPS) THEN j + 8
    ELSE IF LitAt(s, j, HTTP) THEN j + 7
    ELSE 0

\* lazy any-characters up to a closing parenthesis, from position r: the first
\* closing parenthesis reachable without crossing a line feed
CloseParen(s, r) ==
    LET E == {e \in r..Len(s) : s[e] = ")" /\ NoNewline(s, r, e - 1)}
    IN IF r = 0 \/ E = {} THEN 0 ELSE Min(E)

\* the link pattern (bracketed text, then a parenthesised http or https URL)
\* tried at position p: the last position of the match, 0 when none
LinkMatchEnd(s, p) ==
    IF s[p] # "[" THEN 0
    ELSE LET Q == {q \in (p + 1)..Len(s) :
                      /\ s[q] = "]"
                      /\ NoNewline(s, p + 1, q - 1)
                      /\ LitAt(s, q + 1, <<"(">>)
                      /\ CloseParen(s, SchemeEnd(s, q + 2)) # 0}
         IN IF Q = {} THEN 0 ELSE CloseParen(s, SchemeEnd(s, Min(Q) + 2))

\* len(re.findall(link pattern, content)): non-overlapping, left to right
RECURSIVE CountLinks(_, _)
CountLinks(s, i) ==
    LET open == {p \in i..Len(s) : s[p] = "["}
    IN IF open = {} THEN 0
       ELSE LET e == LinkMatchEnd(s, Min(open))
            IN IF e # 0 THEN 1 + CountLinks(s, e + 1)
               ELSE CountLinks(s, Min(open) + 1)

\* variant: a warning makes the structure invalid as well
validate_content_structure_warned(content) ==
    LET main_sections == MainSections(content)
        code_blocks == CodeBlocks(content)
        external_links == CountLinks(content, 1)
        errors == (IF main_sections < MinSections
                     THEN << <<"Insufficient main sections", main_sections, MinSections>> >>
                     ELSE << >>)
                  \o (IF code_blocks % 2 # 0
                        THEN << <<"Unclosed code block detected">> >>
                        ELSE << >>)
        warnings == IF external_links < MinLinks
                      THEN << <<"Few external links", external_links, MinLinks>> >>
                      ELSE << >>
    IN [valid |-> Len(errors) = 0 /\ Len(warnings) = 0, errors |-> errors, warnings |-> warnings,
        main_sections |-> main_sections, external_links |-> external_links]

validate_content_structure(content) ==
    LET main_sections == MainSections(content)
        code_blocks == CodeBlocks(content)
        external_links == CountLinks(content, 1)
        errors == (IF main_sections < MinSections
                     THEN << <<"Insufficient main sections", main_sections, MinSections>> >>
                     ELSE << >>)
                  \o (IF code_blocks % 2 # 0
                        THEN << <<"Unclosed code block detected">> >>
                        ELSE << >>)
        warnings == IF external_links < MinLinks
                      THEN << <<"Few external links", external_links, MinLinks>> >>
                      ELSE << >>
    IN [valid |-> Len(errors) = 0, errors |-> errors, warnings |-> warnings,
        main_sections |-> main_sections, external_links |-> external_links]

(***************************************************************************)
(* blog.py validate_blog_content (the HTTP validator)                      *)
(***************************************************************************)
\* dict.get(key, default)
Get(d, key, default) == IF key \in DOMAIN d THEN d[key] ELSE default

\* len(re.findall(r'^##' + whitespace run, content, re.MULTILINE))
HttpSections(content) ==
    Cardinality({i \in 1..Len(content) :
                    /\ LineStart(content, i)
                    /\ LitAt(content, i, <<"#", "#">>)
                    /\ i + 2 <= Len(content)
                    /\ IsSpace(content[i + 2])})

\* len(re.findall(r'https?://(?!localhost)', content))
HttpExternalLinks(content) ==
    Cardinality({i \in 1..Len(content) :
                    /\ SchemeEnd(content, i) # 0
                    /\ ~LitAt(content, SchemeEnd(content, i), LOCALHOST)})

validate_blog_content(post) ==
    LET title == Get(post, "title", << >>)
        title_errors == IF Len(title) < TitleMin
                          THEN << <<"Title too short", Len(title), TitleMin>> >>
                        ELSE IF Len(title) > TitleMax
                          THEN << <<"Title too long", Len(title), TitleMax>> >>
                        ELSE << >>
        title_validation == [valid |-> Len(title_errors) = 0, errors |-> title_errors,
                             warnings |-> << >>, length |-> Len(title)]
        introduction == Get(post, "introduction", << >>)
        intro_word_count == IF introduction # << >> THEN SplitLen(introduction) ELSE 0
        intro_short == intro_word_count < IntroMin
        intro_long == ~intro_short /\ intro_word_count > IntroMax
        intro_validation ==
            [valid |-> ~intro_short,
             errors |-> IF intro_short
                          THEN << <<"Introduction too short", intro_word_count, IntroMin>> >>
                          ELSE << >>,
             warnings |-> IF intro_long
                            THEN << <<"Introduction quite long", intro_word_count, IntroMax>> >>
                            ELSE << >>,
             word_count |-> intro_word_count]
        content == Get(post, "content", << >>)
        sections == IF content # << >> THEN HttpSections(content) ELSE 0
        external_links == IF content # << >> THEN HttpExternalLinks(content) ELSE 0
        structure_validation ==
            [valid |-> ~(sections < MinSections),
             errors |-> IF sections < MinSections
                          THEN << <<"Insufficient main sections", sections, MinSections>> >>
                          ELSE << >>,
             warnings |-> IF external_links < MinLinks
                            THEN << "Consider adding more external links to authoritative sources" >>
                            ELSE << >>,
             main_sections |-> sections]
    IN [overall_valid |-> title_validation.valid /\ intro_validation.valid
                             /\ structure_validation.valid,
        summary |-> [total_errors |-> Len(title_errors) + Len(intro_validation.errors)
                                        + Len(structure_validation.errors),
                     total_warnings |-> Len(intro_validation.warnings)
                                          + Len(structure_validation.warnings)],
        validations |-> [title |-> title_validation,
                         introduction |-> intro_validation,
                         structure |-> structure_validation]]

(***************************************************************************)
(* Test inputs: titles, running text, Markdown content.                    *)
(***************************************************************************)
TitleMarks == {"x", "?", ":"}

\* a title of n characters whose middle character is the mark
MakeTitle(n, mark) == [i \in 1..n |-> IF i = (n + 1) \div 2 THEN mark ELSE "a"]

\* separators and padding used to lay out n words
TextStyles == {
    [sep |-> <<" ">>, lead |-> << >>, trail |-> << >>],
    [sep |-> <<" ", " ">>, lead |-> <<" ">>, trail |-> <<" ", "\n">>],
    [sep |-> <<"\n", "\t">>, lead |-> <<"\n">>, trail |-> << >>] }

PlainStyle == [sep |-> <<" ">>, lead |-> << >>, trail |-> << >>]

\* n one-letter words laid out in the given style
MakeText(n, st) ==
    LET L == Len(st.sep)
        body == [i \in 1..(IF n = 0 THEN 0 ELSE n + (n - 1) * L) |->
                    IF (i - 1) % (L + 1) = 0 THEN "w" ELSE st.sep[(i - 1) % (L + 1)]]
    IN st.lead \o body \o st.trail

\* pieces of Markdown a content is assembled from
FragKinds == {"h2", "h3", "h2tab", "fence", "http", "https", "ftp", "bare", "open"}

Frag(kind) ==
    CASE kind = "h2"    -> <<"#", "#", " ", "A", "\n">>
      [] kind = "h3"    -> <<"#", "#", "#", " ", "B", "\n">>
      [] kind = "h2tab" -> <<"#", "#", "\t", "C", "\n">>
      [] kind = "fence" -> <<BQ, BQ, BQ, "\n">>
      [] kind = "http"  -> <<"[", "t", "]", "(", "h", "t", "t", "p", ":", "/", "/", "e", ")", "\n">>
      [] kind = "https" -> <<"[", "t", "]", "(", "h", "t", "t", "p", "s", ":", "/", "/", "e", ")", "\n">>
      [] kind = "ftp"   -> <<"[", "t", "]", "(", "f", "t", "p", ":", "/", "/", "e", ")", "\n">>
      [] kind = "bare"  -> <<"h", "t", "t", "p", ":", "/", "/", "e", "\n">>
      [] kind = "open"  -> <<"[", "w", " ">>

RECURSIVE Concat(_)
Concat(frags) ==
    IF frags = << >> THEN << >> ELSE Frag(Head(frags)) \o Concat(Tail(frags))

\* heads leading "## " heading lines followed by the given pieces
MakeContent(heads, frags) == Concat(Rep("h2", heads) \o frags)

FragSeqs == UNION {[1..n -> FragKinds] : n \in 0..MaxFrags}

\* what the pieces are, independently of the regular expressions
EndsLine(kind) == kind # "open"

H2Lines(frags) ==
    Cardinality({i \in 1..Len(frags) :
                    frags[i] = "h2" /\ (i = 1 \/ EndsLine(frags[i-1]))})

Fences(frags) == Cardinality({i \in 1..Len(frags) : frags[i] = "fence"})

MarkdownLinks(frags) == Cardinality({i \in 1..Len(frags) : frags[i] \in {"http", "https"}})

(***************************************************************************)
(* The inputs of the field checks, and the direct calls on them.           *)
(***************************************************************************)
TitleShapes == [kind : {"title"}, len : 0..MaxTitleLen, mark : TitleMarks]

TextShapes == [kind : {"text"}, words : 0..MaxWords, style : TextStyles]

ContentShapes == [kind : {"content"}, heads : 0..MinSections, frags : FragSeqs]

\* posts submitted to the HTTP validator: every field present or absent
PostShapes == [kind : {"post"},
               title : {-1, TitleMin - 1, TitleMin},
               words : -1..MaxWords,
               heads : {-1, MinSections}]

MakePost(sh) ==
    LET keys == (IF sh.title >= 0 THEN {"title"} ELSE {})
                \cup (IF sh.words >= 0 THEN {"introduction"} ELSE {})
                \cup (IF sh.heads >= 0 THEN {"content"} ELSE {})
    IN [k \in keys |->
            IF k = "title" THEN MakeTitle(sh.title, ":")
            ELSE IF k = "introduction" THEN MakeText(sh.words, PlainStyle)
            ELSE MakeContent(sh.heads, << >>)]

Build(sh) ==
    CASE sh.kind = "title"   -> MakeTitle(sh.len, sh.mark)
      [] sh.kind = "text"    -> MakeText(sh.words, sh.style)
      [] sh.kind = "content" -> MakeContent(sh.heads, sh.frags)
      [] sh.kind = "post"    -> MakePost(sh)

Apply(name, result) ==
    /\ op = "init"
    /\ op' = name
    /\ ret' = result
    /\ UNCHANGED <<input, shape, blog_post, seen, last_outline, random_state>>

ValidateTitle ==
    shape.kind = "title" /\ Apply("validate_title", validate_title(input))

ValidateIntroduction ==
    shape.kind = "text" /\ Apply("validate_introduction", validate_introduction(input))

ValidateConclusion ==
    shape.kind = "text" /\ Apply("validate_conclusion", validate_conclusion(input))

ValidateContentStructure ==
    shape.kind = "content"
        /\ Apply("validate_content_structure", validate_content_structure(input))

HttpValidateBlogContent ==
    shape.kind = "post" /\ Apply("validate_blog_content", validate_blog_content(input))

InitRules ==
    /\ op = "init"
    /\ shape \in TitleShapes \cup TextShapes \cup ContentShapes \cup PostShapes
    /\ input = Build(shape)
    /\ ret = None
    /\ blog_post = None
    /\ seen = NotSeen
    /\ last_outline = None
    /\ random_state = 0

NextRules ==
    \/ ValidateTitle
    \/ ValidateIntroduction
    \/ ValidateConclusion
    \/ ValidateContentStructure
    \/ HttpValidateBlogContent

SpecRules == InitRules /\ [][NextRules]_vars

(***************************************************************************)
(* BlogGenerator.generate_blog_outline                                     *)
(***************************************************************************)
\* "A Complete Guide to "
T_CompleteGuide ==
    <<"A", " ", "C", "o", "m", "p", "l", "e", "t", "e", " ", "G", "u", "i",
      "d", "e", " ", "t", "o", " ">>

\* "Understanding "
T_Understanding ==
    <<"U", "n", "d", "e", "r", "s", "t", "a", "n", "d", "i", "n", "g", " ">>

\* ": Best Practices and Implementation"
T_BestPractices ==
    <<":", " ", "B", "e", "s", "t", " ", "P", "r", "a", "c", "t", "i", "c",
      "e", "s", " ", "a", "n", "d", " ", "I", "m", "p", "l", "e", "m", "e",
      "n", "t", "a", "t", "i", "o", "n">>

\* "How to Master "
T_HowToMaster ==
    <<"H", "o", "w", " ", "t", "o", " ", "M", "a", "s", "t", "e", "r", " ">>

\* ": A Developer's Guide"
T_DevelopersGuide ==
    <<":", " ", "A", " ", "D", "e", "v", "e", "l", "o", "p", "e", "r", "'",
      "s", " ", "G", "u", "i", "d", "e">>

\* " Explained: From Basics to Advanced Concepts"
T_Explained ==
    <<" ", "E", "x", "p", "l", "a", "i", "n", "e", "d", ":", " ", "F", "r",
      "o", "m", " ", "B", "a", "s", "i", "c", "s", " ", "t", "o", " ", "A",
      "d", "v", "a", "n", "c", "e", "d", " ", "C", "o", "n", "c", "e", "p",
      "t", "s">>

\* "Building with "
T_BuildingWith ==
    <<"B", "u", "i", "l", "d", "i", "n", "g", " ", "w", "i", "t", "h", " ">>

\* ": Practical Examples and Use Cases"
T_PracticalExamples ==
    <<":", " ", "P", "r", "a", "c", "t", "i", "c", "a", "l", " ", "E", "x",
      "a", "m", "p", "l", "e", "s", " ", "a", "n", "d", " ", "U", "s", "e",
      " ", "C", "a", "s", "e", "s">>

\* "Introduction"
T_Introduction ==
    <<"I", "n", "t", "r", "o", "d", "u", "c", "t", "i", "o", "n">>

\* "Core Concepts"
T_CoreConcepts ==
    <<"C", "o", "r", "e", " ", "C", "o", "n", "c", "e", "p", "t", "s">>

\* "Implementation Guide"
T_ImplementationGuide ==
    <<"I", "m", "p", "l", "e", "m", "e", "n", "t", "a", "t", "i", "o", "n",
      " ", "G", "u", "i", "d", "e">>

\* "Best Practices"
T_BestPracticesTitle ==
    <<"B", "e", "s", "t", " ", "P", "r", "a", "c", "t", "i", "c", "e", "s">>

\* "Real-world Examples"
T_RealWorldExamples ==
    <<"R", "e", "a", "l", "-", "w", "o", "r", "l", "d", " ", "E", "x", "a",
      "m", "p", "l", "e", "s">>

\* "Conclusion"
T_Conclusion ==
    <<"C", "o", "n", "c", "l", "u", "s", "i", "o", "n">>

\* "Advanced Techniques"
T_AdvancedTechniques ==
    <<"A", "d", "v", "a", "n", "c", "e", "d", " ", "T", "e", "c", "h", "n",
      "i", "q", "u", "e", "s">>

\* "Performance Considerations"
T_PerformanceConsiderations ==
    <<"P", "e", "r", "f", "o", "r", "m", "a", "n", "c", "e", " ", "C", "o",
      "n", "s", "i", "d", "e", "r", "a", "t", "i", "o", "n", "s">>

\* "Overview of "
D_OverviewOf ==
    <<"O", "v", "e", "r", "v", "i", "e", "w", " ", "o", "f", " ">>

\* " and its importance in modern development"
D_Importance ==
    <<" ", "a", "n", "d", " ", "i", "t", "s", " ", "i", "m", "p", "o", "r",
      "t", "a", "n", "c", "e", " ", "i", "n", " ", "m", "o", "d", "e", "r",
      "n", " ", "d", "e", "v", "e", "l", "o", "p", "m", "e", "n", "t">>

\* "Fundamental principles and concepts of "
D_Fundamental ==
    <<"F", "u", "n", "d", "a", "m", "e", "n", "t", "a", "l", " ", "p", "r",
      "i", "n", "c", "i", "p", "l", "e", "s", " ", "a", "n", "d", " ", "c",
      "o", "n", "c", "e", "p", "t", "s", " ", "o", "f", " ">>

\* "Step-by-step implementation of "
D_StepByStep ==
    <<"S", "t", "e", "p", "-", "b", "y", "-", "s", "t", "e", "p", " ", "i",
      "m", "p", "l", "e", "m", "e", "n", "t", "a", "t", "i", "o", "n", " ",
      "o", "f", " ">>

\* " with examples"
D_WithExamples ==
    <<" ", "w", "i", "t", "h", " ", "e", "x", "a", "m", "p", "l", "e", "s">>

\* "Industry best practices and common pitfalls to avoid"
D_Industry ==
    <<"I", "n", "d", "u", "s", "t", "r", "y", " ", "b", "e", "s", "t", " ",
      "p", "r", "a", "c", "t", "i", "c", "e", "s", " ", "a", "n", "d", " ",
      "c", "o", "m", "m", "o", "n", " ", "p", "i", "t", "f", "a", "l", "l",
      "s", " ", "t", "o", " ", "a", "v", "o", "i", "d">>

\* "Practical use cases and examples of "
D_PracticalUseCases ==
    <<"P", "r", "a", "c", "t", "i", "c", "a", "l", " ", "u", "s", "e", " ",
      "c", "a", "s", "e", "s", " ", "a", "n", "d", " ", "e", "x", "a", "m",
      "p", "l", "e", "s", " ", "o", "f", " ">>

\* " in action"
D_InAction ==
    <<" ", "i", "n", " ", "a", "c", "t", "i", "o", "n">>

\* "Summary and next steps for learning more about "
D_Summary ==
    <<"S", "u", "m", "m", "a", "r", "y", " ", "a", "n", "d", " ", "n", "e",
      "x", "t", " ", "s", "t", "e", "p", "s", " ", "f", "o", "r", " ", "l",
      "e", "a", "r", "n", "i", "n", "g", " ", "m", "o", "r", "e", " ", "a",
      "b", "o", "u", "t", " ">>

\* "Advanced techniques and patterns for "
D_Advanced ==
    <<"A", "d", "v", "a", "n", "c", "e", "d", " ", "t", "e", "c", "h", "n",
      "i", "q", "u", "e", "s", " ", "a", "n", "d", " ", "p", "a", "t", "t",
      "e", "r", "n", "s", " ", "f", "o", "r", " ">>

\* "Performance optimization strategies for "
D_Performance ==
    <<"P", "e", "r", "f", "o", "r", "m", "a", "n", "c", "e", " ", "o", "p",
      "t", "i", "m", "i", "z", "a", "t", "i", "o", "n", " ", "s", "t", "r",
      "a", "t", "e", "g", "i", "e", "s", " ", "f", "o", "r", " ">>

Section(title, description, estimated_words) ==
    [title |-> title, description |-> description, estimated_words |-> estimated_words]

\* sum(section["estimated_words"] for section in sections)
RECURSIVE SumWords(_)
SumWords(sections) ==
    IF sections = << >> THEN 0
    ELSE Head(sections).estimated_words + SumWords(Tail(sections))

\* variant: the section list is one module-level list that every call returns,
\* so the two sections a "long" request appended are still in it
generate_blog_outline_shared(topic, target_audience, keywords, now) ==
    LET title_templates == <<
            T_CompleteGuide \o topic,
            T_Understanding \o topic \o T_BestPractices,
            T_HowToMaster \o topic \o T_DevelopersGuide,
            topic \o T_Explained,
            T_BuildingWith \o topic \o T_PracticalExamples >>
        sections ==
            IF op = "generate_blog_outline" /\ "json" \in DOMAIN ret[1].text
                 /\ Len(ret[1].text.json.sections) > 6
              THEN ret[1].text.json.sections
              ELSE <<
                Section(T_Introduction, D_OverviewOf \o topic \o D_Importance, 200),
                Section(T_CoreConcepts, D_Fundamental \o topic, 400),
                Section(T_ImplementationGuide, D_StepByStep \o topic \o D_WithExamples, 600),
                Section(T_BestPracticesTitle, D_Industry, 300),
                Section(T_RealWorldExamples, D_PracticalUseCases \o topic \o D_InAction, 400),
                Section(T_Conclusion, D_Summary \o topic, 150) >>
    IN [topic |-> topic,
        target_audience |-> target_audience,
        keywords |-> keywords,
        title_suggestions |-> title_templates,
        sections |-> sections,
        estimated_total_words |-> SumWords(sections),
        generated_at |-> now]

generate_blog_outline(topic, target_audience, keywords, now) ==
    LET title_templates == <<
            T_CompleteGuide \o topic,
            T_Understanding \o topic \o T_BestPractices,
            T_HowToMaster \o topic \o T_DevelopersGuide,
            topic \o T_Explained,
            T_BuildingWith \o topic \o T_PracticalExamples >>
        sections == <<
            Section(T_Introduction, D_OverviewOf \o topic \o D_Importance, 200),
            Section(T_CoreConcepts, D_Fundamental \o topic, 400),
            Section(T_ImplementationGuide, D_StepByStep \o topic \o D_WithExamples, 600),
            Section(T_BestPracticesTitle, D_Industry, 300),
            Section(T_RealWorldExamples, D_PracticalUseCases \o topic \o D_InAction, 400),
            Section(T_Conclusion, D_Summary \o topic, 150) >>
    IN [topic |-> topic,
        target_audience |-> target_audience,
        keywords |-> keywords,
        title_suggestions |-> title_templates,
        sections |-> sections,
        estimated_total_words |-> SumWords(sections),
        generated_at |-> now]

(***************************************************************************)
(* BlogGenerator.validate_blog_post                                        *)
(***************************************************************************)
\* variant: the dictionary is created once and shared by all calls
SharedValidationResults ==
    IF seen.first # None
      THEN seen.first
      ELSE [overall_valid |-> TRUE,
            validations |-> << >>,
            summary |-> [total_errors |-> 0, total_warnings |-> 0]]

\* the dictionary a call starts from
NewValidationResults ==
    [overall_valid |-> TRUE,
     validations |-> << >>,
     summary |-> [total_errors |-> 0, total_warnings |-> 0]]

\* variant: the counters of one call add their own error count to the warnings
RecordValidationErrorsTwice(results, name, validation) ==
    [overall_valid |-> IF ~validation.valid THEN FALSE ELSE results.overall_valid,
     validations |-> [k \in DOMAIN results.validations \cup {name} |->
                         IF k = name THEN validation ELSE results.validations[k]],
     summary |-> [total_errors |-> results.summary.total_errors + Len(validation.errors),
                  total_warnings |-> results.summary.total_warnings
                                        + Len(validation.errors)]]

\* the four statements that follow each check: store it, clear overall_valid,
\* add to the two counters
RecordValidation(results, name, validation) ==
    [overall_valid |-> IF ~validation.valid THEN FALSE ELSE results.overall_valid,
     validations |-> [k \in DOMAIN results.validations \cup {name} |->
                         IF k = name THEN validation ELSE results.validations[k]],
     summary |-> [total_errors |-> results.summary.total_errors + Len(validation.errors),
                  total_warnings |-> results.summary.total_warnings
                                        + Len(validation.warnings)]]

\* variant: a missing field is read as the empty string and checked anyway
validate_blog_post_defaults(post) ==
    LET r1 == RecordValidation(NewValidationResults, "title",
                               validate_title(Get(post, "title", << >>)))
        r2 == RecordValidation(r1, "introduction",
                               validate_introduction(Get(post, "introduction", << >>)))
        r3 == RecordValidation(r2, "conclusion",
                               validate_conclusion(Get(post, "conclusion", << >>)))
    IN RecordValidation(r3, "structure",
                        validate_content_structure(Get(post, "content", << >>)))

validate_blog_post(post) ==
    LET r0 == NewValidationResults
        r1 == IF "title" \in DOMAIN post
                THEN RecordValidation(r0, "title", validate_title(post["title"]))
                ELSE r0
        r2 == IF "introduction" \in DOMAIN post
                THEN RecordValidation(r1, "introduction",
                                      validate_introduction(post["introduction"]))
                ELSE r1
        r3 == IF "conclusion" \in DOMAIN post
                THEN RecordValidation(r2, "conclusion",
                                      validate_conclusion(post["conclusion"]))
                ELSE r2
    IN IF "content" \in DOMAIN post
         THEN RecordValidation(r3, "structure",
                               validate_content_structure(post["content"]))
         ELSE r3

(***************************************************************************)
(* EnhancedBlogGenerator (the content synthesizer)                         *)
(*                                                                         *)
(* Every random.choice of the source is a parameter of the operator that   *)
(* makes it, so a caller draws it from the choices the call can make.      *)
(* datetime.now() is the parameter now.  str.lower and str.title are       *)
(* computed on the 26 ASCII letters.                                       *)
(***************************************************************************)
UPPER ==
    <<"A", "B", "C", "D", "E", "F", "G", "H", "I", "J", "K", "L", "M",
      "N", "O", "P", "Q", "R", "S", "T", "U", "V", "W", "X", "Y", "Z">>

LOWER ==
    <<"a", "b", "c", "d", "e", "f", "g", "h", "i", "j", "k", "l", "m",
      "n", "o", "p", "q", "r", "s", "t", "u", "v", "w", "x", "y", "z">>

IsUpper(c) == \E i \in 1..26 : c = UPPER[i]

IsLower(c) == \E i \in 1..26 : c = LOWER[i]

lower_char(c) == IF IsUpper(c) THEN LOWER[CHOOSE i \in 1..26 : c = UPPER[i]] ELSE c

upper_char(c) == IF IsLower(c) THEN UPPER[CHOOSE i \in 1..26 : c = LOWER[i]] ELSE c

\* s.lower()
lower(s) == [i \in 1..Len(s) |-> lower_char(s[i])]

\* s.title(): a letter that follows a letter is lower-cased, any other letter
\* is upper-cased
str_title(s) ==
    [i \in 1..Len(s) |->
        IF i > 1 /\ (IsUpper(s[i-1]) \/ IsLower(s[i-1]))
          THEN lower_char(s[i])
          ELSE upper_char(s[i])]

\* lit in s, for a literal that is not empty
Contains(s, lit) == \E i \in 1..Len(s) : LitAt(s, i, lit)

\* list[:n]
Take(list, n) == SubSeq(list, 1, IF Len(list) < n THEN Len(list) ELSE n)

\* ", "
CommaBlank == <<",", " ">>

\* sep.join(list)
RECURSIVE Join(_, _)
Join(list, sep) ==
    IF list = << >> THEN << >>
    ELSE IF Len(list) = 1 THEN list[1]
    ELSE list[1] \o sep \o Join(Tail(list), sep)

\* "".join(parts)
RECURSIVE ConcatAll(_)
ConcatAll(parts) ==
    IF parts = << >> THEN << >> ELSE Head(parts) \o ConcatAll(Tail(parts))

\* the texts of the title patterns and of the keyword suffix
TitleText ==
    << \* "The Complete Guide to "
       <<"T", "h", "e", " ", "C", "o", "m", "p", "l", "e", "t", "e", " ", "G",
         "u", "i", "d", "e", " ", "t", "o", " ">>,
       \* ": Best Practices for "
       <<":", " ", "B", "e", "s", "t", " ", "P", "r", "a", "c", "t", "i", "c",
         "e", "s", " ", "f", "o", "r", " ">>,
       \* " Developers"
       <<" ", "D", "e", "v", "e", "l", "o", "p", "e", "r", "s">>,
       \* "Mastering "
       <<"M", "a", "s", "t", "e", "r", "i", "n", "g", " ">>,
       \* ": A Comprehensive "
       <<":", " ", "A", " ", "C", "o", "m", "p", "r", "e", "h", "e", "n", "s",
         "i", "v", "e", " ">>,
       \* "-Level Tutorial"
       <<"-", "L", "e", "v", "e", "l", " ", "T", "u", "t", "o", "r", "i", "a",
         "l">>,
       \* "Understanding "
       <<"U", "n", "d", "e", "r", "s", "t", "a", "n", "d", "i", "n", "g", " ">>,
       \* ": From Basics to Advanced Implementation"
       <<":", " ", "F", "r", "o", "m", " ", "B", "a", "s", "i", "c", "s", " ",
         "t", "o", " ", "A", "d", "v", "a", "n", "c", "e", "d", " ", "I", "m",
         "p", "l", "e", "m", "e", "n", "t", "a", "t", "i", "o", "n">>,
       \* "How to Implement "
       <<"H", "o", "w", " ", "t", "o", " ", "I", "m", "p", "l", "e", "m", "e",
         "n", "t", " ">>,
       \* ": A Step-by-Step Guide for "
       <<":", " ", "A", " ", "S", "t", "e", "p", "-", "b", "y", "-", "S", "t",
         "e", "p", " ", "G", "u", "i", "d", "e", " ", "f", "o", "r", " ">>,
       \* " Users"
       <<" ", "U", "s", "e", "r", "s">>,
       \* " Explained: Essential Concepts and Practical Examples"
       <<" ", "E", "x", "p", "l", "a", "i", "n", "e", "d", ":", " ", "E", "s",
         "s", "e", "n", "t", "i", "a", "l", " ", "C", "o", "n", "c", "e", "p",
         "t", "s", " ", "a", "n", "d", " ", "P", "r", "a", "c", "t", "i", "c",
         "a", "l", " ", "E", "x", "a", "m", "p", "l", "e", "s">>,
       \* "Building with "
       <<"B", "u", "i", "l", "d", "i", "n", "g", " ", "w", "i", "t", "h", " ">>,
       \* ": Modern Approaches and Best Practices"
       <<":", " ", "M", "o", "d", "e", "r", "n", " ", "A", "p", "p", "r", "o",
         "a", "c", "h", "e", "s", " ", "a", "n", "d", " ", "B", "e", "s", "t",
         " ", "P", "r", "a", "c", "t", "i", "c", "e", "s">>,
       \* "The Developer's Guide to "
       <<"T", "h", "e", " ", "D", "e", "v", "e", "l", "o", "p", "e", "r", "'",
         "s", " ", "G", "u", "i", "d", "e", " ", "t", "o", " ">>,
       \* ": Tips, Tricks, and Real-World Applications"
       <<":", " ", "T", "i", "p", "s", ",", " ", "T", "r", "i", "c", "k", "s",
         ",", " ", "a", "n", "d", " ", "R", "e", "a", "l", "-", "W", "o", "r",
         "l", "d", " ", "A", "p", "p", "l", "i", "c", "a", "t", "i", "o", "n",
         "s">>,
       \* " - "
       <<" ", "-", " ">> >>

\* variant: the suffix is appended whenever the title is short and there are
\* keywords, whatever the length of the result
_generate_title_unguarded(topic, keywords, audience, choice) ==
    LET title_patterns == <<
            TitleText[1] \o topic \o TitleText[2] \o str_title(audience) \o TitleText[3],
            TitleText[4] \o topic \o TitleText[5] \o str_title(audience) \o TitleText[6],
            TitleText[7] \o topic \o TitleText[8],
            TitleText[9] \o topic \o TitleText[10] \o str_title(audience) \o TitleText[11],
            topic \o TitleText[12],
            TitleText[13] \o topic \o TitleText[14],
            TitleText[15] \o topic \o TitleText[16] >>
        base_title == title_patterns[choice]
        keyword_addition == TitleText[17] \o Join(Take(keywords, 2), CommaBlank)
    IN IF Len(base_title) < 50 /\ keywords # << >>
            /\ TRUE
         THEN base_title \o keyword_addition
         ELSE base_title

\* random.choice(title_patterns) is the pattern number choice
_generate_title(topic, keywords, audience, choice) ==
    LET title_patterns == <<
            TitleText[1] \o topic \o TitleText[2] \o str_title(audience) \o TitleText[3],
            TitleText[4] \o topic \o TitleText[5] \o str_title(audience) \o TitleText[6],
            TitleText[7] \o topic \o TitleText[8],
            TitleText[9] \o topic \o TitleText[10] \o str_title(audience) \o TitleText[11],
            topic \o TitleText[12],
            TitleText[13] \o topic \o TitleText[14],
            TitleText[15] \o topic \o TitleText[16] >>
        base_title == title_patterns[choice]
        keyword_addition == TitleText[17] \o Join(Take(keywords, 2), CommaBlank)
    IN IF Len(base_title) < 50 /\ keywords # << >>
            /\ Len(base_title \o keyword_addition) <= 80
         THEN base_title \o keyword_addition
         ELSE base_title

\* the texts of introduction_templates, cut at {topic}, {audience_context} and {keywords}
IntroductionTemplateText ==
    << \* "In today's rapidly evolving technology landscape, "
       <<"I", "n", " ", "t", "o", "d", "a", "y", "'", "s", " ", "r", "a", "p",
         "i", "d", "l", "y", " ", "e", "v", "o", "l", "v", "i", "n", "g", " ",
         "t", "e", "c", "h", "n", "o", "l", "o", "g", "y", " ", "l", "a", "n",
         "d", "s", "c", "a", "p", "e", ",", " ">>,
       \* " has emerged as a critical component for "
       <<" ", "h", "a", "s", " ", "e", "m", "e", "r", "g", "e", "d", " ", "a",
         "s", " ", "a", " ", "c", "r", "i", "t", "i", "c", "a", "l", " ", "c",
         "o", "m", "p", "o", "n", "e", "n", "t", " ", "f", "o", "r", " ">>,
       \* ". This comprehensive guide will explore the fundamental concepts, practic
       \* al implementations, and best practices that will help you master "
       <<".", " ", "T", "h", "i", "s", " ", "c", "o", "m", "p", "r", "e", "h",
         "e", "n", "s", "i", "v", "e", " ", "g", "u", "i", "d", "e", " ", "w",
         "i", "l", "l", " ", "e", "x", "p", "l", "o", "r", "e", " ", "t", "h",
         "e", " ", "f", "u", "n", "d", "a", "m", "e", "n", "t", "a", "l", " ",
         "c", "o", "n", "c", "e", "p", "t", "s", ",", " ", "p", "r", "a", "c",
         "t", "i", "c", "a", "l", " ", "i", "m", "p", "l", "e", "m", "e", "n",
         "t", "a", "t", "i", "o", "n", "s", ",", " ", "a", "n", "d", " ", "b",
         "e", "s", "t", " ", "p", "r", "a", "c", "t", "i", "c", "e", "s", " ",
         "t", "h", "a", "t", " ", "w", "i", "l", "l", " ", "h", "e", "l", "p",
         " ", "y", "o", "u", " ", "m", "a", "s", "t", "e", "r", " ">>,
       \* " and leverage its full potential in your projects."
       <<" ", "a", "n", "d", " ", "l", "e", "v", "e", "r", "a", "g", "e", " ",
         "i", "t", "s", " ", "f", "u", "l", "l", " ", "p", "o", "t", "e", "n",
         "t", "i", "a", "l", " ", "i", "n", " ", "y", "o", "u", "r", " ", "p",
         "r", "o", "j", "e", "c", "t", "s", ".">>,
       \* "Understanding "
       <<"U", "n", "d", "e", "r", "s", "t", "a", "n", "d", "i", "n", "g", " ">>,
       \* " is essential for modern developers who want to stay competitive in the t
       \* ech industry. Whether you're "
       <<" ", "i", "s", " ", "e", "s", "s", "e", "n", "t", "i", "a", "l", " ",
         "f", "o", "r", " ", "m", "o", "d", "e", "r", "n", " ", "d", "e", "v",
         "e", "l", "o", "p", "e", "r", "s", " ", "w", "h", "o", " ", "w", "a",
         "n", "t", " ", "t", "o", " ", "s", "t", "a", "y", " ", "c", "o", "m",
         "p", "e", "t", "i", "t", "i", "v", "e", " ", "i", "n", " ", "t", "h",
         "e", " ", "t", "e", "c", "h", " ", "i", "n", "d", "u", "s", "t", "r",
         "y", ".", " ", "W", "h", "e", "t", "h", "e", "r", " ", "y", "o", "u",
         "'", "r", "e", " ">>,
       \* ", this article will provide you with the knowledge and practical insights
       \*  needed to effectively implement "
       <<",", " ", "t", "h", "i", "s", " ", "a", "r", "t", "i", "c", "l", "e",
         " ", "w", "i", "l", "l", " ", "p", "r", "o", "v", "i", "d", "e", " ",
         "y", "o", "u", " ", "w", "i", "t", "h", " ", "t", "h", "e", " ", "k",
         "n", "o", "w", "l", "e", "d", "g", "e", " ", "a", "n", "d", " ", "p",
         "r", "a", "c", "t", "i", "c", "a", "l", " ", "i", "n", "s", "i", "g",
         "h", "t", "s", " ", "n", "e", "e", "d", "e", "d", " ", "t", "o", " ",
         "e", "f", "f", "e", "c", "t", "i", "v", "e", "l", "y", " ", "i", "m",
         "p", "l", "e", "m", "e", "n", "t", " ">>,
       \* " in your work."
       <<" ", "i", "n", " ", "y", "o", "u", "r", " ", "w", "o", "r", "k", ".">>,
       \* "As technology continues to advance, "
       <<"A", "s", " ", "t", "e", "c", "h", "n", "o", "l", "o", "g", "y", " ",
         "c", "o", "n", "t", "i", "n", "u", "e", "s", " ", "t", "o", " ", "a",
         "d", "v", "a", "n", "c", "e", ",", " ">>,
       \* " has become increasingly important for "
       <<" ", "h", "a", "s", " ", "b", "e", "c", "o", "m", "e", " ", "i", "n",
         "c", "r", "e", "a", "s", "i", "n", "g", "l", "y", " ", "i", "m", "p",
         "o", "r", "t", "a", "n", "t", " ", "f", "o", "r", " ">>,
       \* ". In this detailed exploration, we'll dive deep into the core concepts, e
       \* xamine real-world applications, and provide you with actionable strategies
       \*  for implementing "
       <<".", " ", "I", "n", " ", "t", "h", "i", "s", " ", "d", "e", "t", "a",
         "i", "l", "e", "d", " ", "e", "x", "p", "l", "o", "r", "a", "t", "i",
         "o", "n", ",", " ", "w", "e", "'", "l", "l", " ", "d", "i", "v", "e",
         " ", "d", "e", "e", "p", " ", "i", "n", "t", "o", " ", "t", "h", "e",
         " ", "c", "o", "r", "e", " ", "c", "o", "n", "c", "e", "p", "t", "s",
         ",", " ", "e", "x", "a", "m", "i", "n", "e", " ", "r", "e", "a", "l",
         "-", "w", "o", "r", "l", "d", " ", "a", "p", "p", "l", "i", "c", "a",
         "t", "i", "o", "n", "s", ",", " ", "a", "n", "d", " ", "p", "r", "o",
         "v", "i", "d", "e", " ", "y", "o", "u", " ", "w", "i", "t", "h", " ",
         "a", "c", "t", "i", "o", "n", "a", "b", "l", "e", " ", "s", "t", "r",
         "a", "t", "e", "g", "i", "e", "s", " ", "f", "o", "r", " ", "i", "m",
         "p", "l", "e", "m", "e", "n", "t", "i", "n", "g", " ">>,
       \* " successfully."
       <<" ", "s", "u", "c", "c", "e", "s", "s", "f", "u", "l", "l", "y", ".">> >>

\* "beginner"
A_Beginner ==
    <<"b", "e", "g", "i", "n", "n", "e", "r">>

\* the audience contexts, the keyword sentence and the hooks of the introduction
IntroductionText ==
    << \* "newcomers to the field and those just starting their development journey"
       <<"n", "e", "w", "c", "o", "m", "e", "r", "s", " ", "t", "o", " ", "t",
         "h", "e", " ", "f", "i", "e", "l", "d", " ", "a", "n", "d", " ", "t",
         "h", "o", "s", "e", " ", "j", "u", "s", "t", " ", "s", "t", "a", "r",
         "t", "i", "n", "g", " ", "t", "h", "e", "i", "r", " ", "d", "e", "v",
         "e", "l", "o", "p", "m", "e", "n", "t", " ", "j", "o", "u", "r", "n",
         "e", "y">>,
       \* "developers with some experience looking to deepen their understanding"
       <<"d", "e", "v", "e", "l", "o", "p", "e", "r", "s", " ", "w", "i", "t",
         "h", " ", "s", "o", "m", "e", " ", "e", "x", "p", "e", "r", "i", "e",
         "n", "c", "e", " ", "l", "o", "o", "k", "i", "n", "g", " ", "t", "o",
         " ", "d", "e", "e", "p", "e", "n", " ", "t", "h", "e", "i", "r", " ",
         "u", "n", "d", "e", "r", "s", "t", "a", "n", "d", "i", "n", "g">>,
       \* "experienced professionals seeking to master advanced concepts"
       <<"e", "x", "p", "e", "r", "i", "e", "n", "c", "e", "d", " ", "p", "r",
         "o", "f", "e", "s", "s", "i", "o", "n", "a", "l", "s", " ", "s", "e",
         "e", "k", "i", "n", "g", " ", "t", "o", " ", "m", "a", "s", "t", "e",
         "r", " ", "a", "d", "v", "a", "n", "c", "e", "d", " ", "c", "o", "n",
         "c", "e", "p", "t", "s">>,
       \* "developers at all levels"
       <<"d", "e", "v", "e", "l", "o", "p", "e", "r", "s", " ", "a", "t", " ",
         "a", "l", "l", " ", "l", "e", "v", "e", "l", "s">>,
       \* " Key areas we'll cover include "
       <<" ", "K", "e", "y", " ", "a", "r", "e", "a", "s", " ", "w", "e", "'",
         "l", "l", " ", "c", "o", "v", "e", "r", " ", "i", "n", "c", "l", "u",
         "d", "e", " ">>,
       \* ", ensuring you gain practical knowledge that can be immediately applied t
       \* o your projects."
       <<",", " ", "e", "n", "s", "u", "r", "i", "n", "g", " ", "y", "o", "u",
         " ", "g", "a", "i", "n", " ", "p", "r", "a", "c", "t", "i", "c", "a",
         "l", " ", "k", "n", "o", "w", "l", "e", "d", "g", "e", " ", "t", "h",
         "a", "t", " ", "c", "a", "n", " ", "b", "e", " ", "i", "m", "m", "e",
         "d", "i", "a", "t", "e", "l", "y", " ", "a", "p", "p", "l", "i", "e",
         "d", " ", "t", "o", " ", "y", "o", "u", "r", " ", "p", "r", "o", "j",
         "e", "c", "t", "s", ".">>,
       \* " Did you know that proper implementation of "
       <<" ", "D", "i", "d", " ", "y", "o", "u", " ", "k", "n", "o", "w", " ",
         "t", "h", "a", "t", " ", "p", "r", "o", "p", "e", "r", " ", "i", "m",
         "p", "l", "e", "m", "e", "n", "t", "a", "t", "i", "o", "n", " ", "o",
         "f", " ">>,
       \* " can significantly improve your application's performance and maintainabi
       \* lity?"
       <<" ", "c", "a", "n", " ", "s", "i", "g", "n", "i", "f", "i", "c", "a",
         "n", "t", "l", "y", " ", "i", "m", "p", "r", "o", "v", "e", " ", "y",
         "o", "u", "r", " ", "a", "p", "p", "l", "i", "c", "a", "t", "i", "o",
         "n", "'", "s", " ", "p", "e", "r", "f", "o", "r", "m", "a", "n", "c",
         "e", " ", "a", "n", "d", " ", "m", "a", "i", "n", "t", "a", "i", "n",
         "a", "b", "i", "l", "i", "t", "y", "?">>,
       \* " Recent industry surveys show that "
       <<" ", "R", "e", "c", "e", "n", "t", " ", "i", "n", "d", "u", "s", "t",
         "r", "y", " ", "s", "u", "r", "v", "e", "y", "s", " ", "s", "h", "o",
         "w", " ", "t", "h", "a", "t", " ">>,
       \* " skills are among the most sought-after in today's job market."
       <<" ", "s", "k", "i", "l", "l", "s", " ", "a", "r", "e", " ", "a", "m",
         "o", "n", "g", " ", "t", "h", "e", " ", "m", "o", "s", "t", " ", "s",
         "o", "u", "g", "h", "t", "-", "a", "f", "t", "e", "r", " ", "i", "n",
         " ", "t", "o", "d", "a", "y", "'", "s", " ", "j", "o", "b", " ", "m",
         "a", "r", "k", "e", "t", ".">>,
       \* " Many developers struggle with "
       <<" ", "M", "a", "n", "y", " ", "d", "e", "v", "e", "l", "o", "p", "e",
         "r", "s", " ", "s", "t", "r", "u", "g", "g", "l", "e", " ", "w", "i",
         "t", "h", " ">>,
       \* " implementation, but with the right approach, it becomes much more manage
       \* able."
       <<" ", "i", "m", "p", "l", "e", "m", "e", "n", "t", "a", "t", "i", "o",
         "n", ",", " ", "b", "u", "t", " ", "w", "i", "t", "h", " ", "t", "h",
         "e", " ", "r", "i", "g", "h", "t", " ", "a", "p", "p", "r", "o", "a",
         "c", "h", ",", " ", "i", "t", " ", "b", "e", "c", "o", "m", "e", "s",
         " ", "m", "u", "c", "h", " ", "m", "o", "r", "e", " ", "m", "a", "n",
         "a", "g", "e", "a", "b", "l", "e", ".">> >>

\* "intermediate"
A_Intermediate ==
    <<"i", "n", "t", "e", "r", "m", "e", "d", "i", "a", "t", "e">>

\* "advanced"
A_Advanced ==
    <<"a", "d", "v", "a", "n", "c", "e", "d">>

\* audience_contexts.get(audience, "developers at all levels")
IntroductionContext(audience) ==
    IF audience = A_Beginner THEN IntroductionText[1]
    ELSE IF audience = A_Intermediate THEN IntroductionText[2]
    ELSE IF audience = A_Advanced THEN IntroductionText[3]
    ELSE IntroductionText[4]

\* the two random.choice calls are the numbers template and hook
_generate_introduction(topic, audience, keywords, template, hook) ==
    LET audience_context == IntroductionContext(audience)
        templates == <<
            IntroductionTemplateText[1] \o topic \o IntroductionTemplateText[2] \o audience_context \o IntroductionTemplateText[3] \o topic \o IntroductionTemplateText[4],
            IntroductionTemplateText[5] \o topic \o IntroductionTemplateText[6] \o audience_context \o IntroductionTemplateText[7] \o topic \o IntroductionTemplateText[8],
            IntroductionTemplateText[9] \o topic \o IntroductionTemplateText[10] \o audience_context \o IntroductionTemplateText[11] \o topic \o IntroductionTemplateText[12] >>
        keyword_sentence == IntroductionText[5] \o Join(Take(keywords, 3), CommaBlank) \o IntroductionText[6]
        hook_sentences == <<
            IntroductionText[7] \o topic \o IntroductionText[8],
            IntroductionText[9] \o topic \o IntroductionText[10],
            IntroductionText[11] \o topic \o IntroductionText[12] >>
    IN templates[template]
         \o (IF keywords # << >> THEN keyword_sentence ELSE << >>)
         \o hook_sentences[hook]

\* the texts of conclusion_templates, cut at {topic}, {audience_context} and {keywords}
ConclusionTemplateText ==
    << \* "Throughout this comprehensive guide, we've explored the essential aspects
       \*  of "
       <<"T", "h", "r", "o", "u", "g", "h", "o", "u", "t", " ", "t", "h", "i",
         "s", " ", "c", "o", "m", "p", "r", "e", "h", "e", "n", "s", "i", "v",
         "e", " ", "g", "u", "i", "d", "e", ",", " ", "w", "e", "'", "v", "e",
         " ", "e", "x", "p", "l", "o", "r", "e", "d", " ", "t", "h", "e", " ",
         "e", "s", "s", "e", "n", "t", "i", "a", "l", " ", "a", "s", "p", "e",
         "c", "t", "s", " ", "o", "f", " ">>,
       \* ", from fundamental concepts to advanced implementation strategies. By fol
       \* lowing the best practices and examples outlined in this article, you'll be
       \*  well-equipped to leverage "
       <<",", " ", "f", "r", "o", "m", " ", "f", "u", "n", "d", "a", "m", "e",
         "n", "t", "a", "l", " ", "c", "o", "n", "c", "e", "p", "t", "s", " ",
         "t", "o", " ", "a", "d", "v", "a", "n", "c", "e", "d", " ", "i", "m",
         "p", "l", "e", "m", "e", "n", "t", "a", "t", "i", "o", "n", " ", "s",
         "t", "r", "a", "t", "e", "g", "i", "e", "s", ".", " ", "B", "y", " ",
         "f", "o", "l", "l", "o", "w", "i", "n", "g", " ", "t", "h", "e", " ",
         "b", "e", "s", "t", " ", "p", "r", "a", "c", "t", "i", "c", "e", "s",
         " ", "a", "n", "d", " ", "e", "x", "a", "m", "p", "l", "e", "s", " ",
         "o", "u", "t", "l", "i", "n", "e", "d", " ", "i", "n", " ", "t", "h",
         "i", "s", " ", "a", "r", "t", "i", "c", "l", "e", ",", " ", "y", "o",
         "u", "'", "l", "l", " ", "b", "e", " ", "w", "e", "l", "l", "-", "e",
         "q", "u", "i", "p", "p", "e", "d", " ", "t", "o", " ", "l", "e", "v",
         "e", "r", "a", "g", "e", " ">>,
       \* " effectively in your projects. Remember that mastering "
       <<" ", "e", "f", "f", "e", "c", "t", "i", "v", "e", "l", "y", " ", "i",
         "n", " ", "y", "o", "u", "r", " ", "p", "r", "o", "j", "e", "c", "t",
         "s", ".", " ", "R", "e", "m", "e", "m", "b", "e", "r", " ", "t", "h",
         "a", "t", " ", "m", "a", "s", "t", "e", "r", "i", "n", "g", " ">>,
       \* " is an ongoing journey, and staying updated with the latest developments 
       \* in this field will help you maintain a competitive edge."
       <<" ", "i", "s", " ", "a", "n", " ", "o", "n", "g", "o", "i", "n", "g",
         " ", "j", "o", "u", "r", "n", "e", "y", ",", " ", "a", "n", "d", " ",
         "s", "t", "a", "y", "i", "n", "g", " ", "u", "p", "d", "a", "t", "e",
         "d", " ", "w", "i", "t", "h", " ", "t", "h", "e", " ", "l", "a", "t",
         "e", "s", "t", " ", "d", "e", "v", "e", "l", "o", "p", "m", "e", "n",
         "t", "s", " ", "i", "n", " ", "t", "h", "i", "s", " ", "f", "i", "e",
         "l", "d", " ", "w", "i", "l", "l", " ", "h", "e", "l", "p", " ", "y",
         "o", "u", " ", "m", "a", "i", "n", "t", "a", "i", "n", " ", "a", " ",
         "c", "o", "m", "p", "e", "t", "i", "t", "i", "v", "e", " ", "e", "d",
         "g", "e", ".">>,
       \* "In conclusion, "
       <<"I", "n", " ", "c", "o", "n", "c", "l", "u", "s", "i", "o", "n", ",",
         " ">>,
       \* " represents a powerful tool for "
       <<" ", "r", "e", "p", "r", "e", "s", "e", "n", "t", "s", " ", "a", " ",
         "p", "o", "w", "e", "r", "f", "u", "l", " ", "t", "o", "o", "l", " ",
         "f", "o", "r", " ">>,
       \* " looking to enhance their technical capabilities. The concepts, strategie
       \* s, and best practices we've discussed provide a solid foundation for your 
       \* journey with "
       <<" ", "l", "o", "o", "k", "i", "n", "g", " ", "t", "o", " ", "e", "n",
         "h", "a", "n", "c", "e", " ", "t", "h", "e", "i", "r", " ", "t", "e",
         "c", "h", "n", "i", "c", "a", "l", " ", "c", "a", "p", "a", "b", "i",
         "l", "i", "t", "i", "e", "s", ".", " ", "T", "h", "e", " ", "c", "o",
         "n", "c", "e", "p", "t", "s", ",", " ", "s", "t", "r", "a", "t", "e",
         "g", "i", "e", "s", ",", " ", "a", "n", "d", " ", "b", "e", "s", "t",
         " ", "p", "r", "a", "c", "t", "i", "c", "e", "s", " ", "w", "e", "'",
         "v", "e", " ", "d", "i", "s", "c", "u", "s", "s", "e", "d", " ", "p",
         "r", "o", "v", "i", "d", "e", " ", "a", " ", "s", "o", "l", "i", "d",
         " ", "f", "o", "u", "n", "d", "a", "t", "i", "o", "n", " ", "f", "o",
         "r", " ", "y", "o", "u", "r", " ", "j", "o", "u", "r", "n", "e", "y",
         " ", "w", "i", "t", "h", " ">>,
       \* ". As you continue to explore and implement these techniques, remember to 
       \* adapt them to your specific use cases and requirements."
       <<".", " ", "A", "s", " ", "y", "o", "u", " ", "c", "o", "n", "t", "i",
         "n", "u", "e", " ", "t", "o", " ", "e", "x", "p", "l", "o", "r", "e",
         " ", "a", "n", "d", " ", "i", "m", "p", "l", "e", "m", "e", "n", "t",
         " ", "t", "h", "e", "s", "e", " ", "t", "e", "c", "h", "n", "i", "q",
         "u", "e", "s", ",", " ", "r", "e", "m", "e", "m", "b", "e", "r", " ",
         "t", "o", " ", "a", "d", "a", "p", "t", " ", "t", "h", "e", "m", " ",
         "t", "o", " ", "y", "o", "u", "r", " ", "s", "p", "e", "c", "i", "f",
         "i", "c", " ", "u", "s", "e", " ", "c", "a", "s", "e", "s", " ", "a",
         "n", "d", " ", "r", "e", "q", "u", "i", "r", "e", "m", "e", "n", "t",
         "s", ".">>,
       \* "We've covered the essential elements of "
       <<"W", "e", "'", "v", "e", " ", "c", "o", "v", "e", "r", "e", "d", " ",
         "t", "h", "e", " ", "e", "s", "s", "e", "n", "t", "i", "a", "l", " ",
         "e", "l", "e", "m", "e", "n", "t", "s", " ", "o", "f", " ">>,
       \* ", providing you with both theoretical understanding and practical impleme
       \* ntation guidance. The key to success with "
       <<",", " ", "p", "r", "o", "v", "i", "d", "i", "n", "g", " ", "y", "o",
         "u", " ", "w", "i", "t", "h", " ", "b", "o", "t", "h", " ", "t", "h",
         "e", "o", "r", "e", "t", "i", "c", "a", "l", " ", "u", "n", "d", "e",
         "r", "s", "t", "a", "n", "d", "i", "n", "g", " ", "a", "n", "d", " ",
         "p", "r", "a", "c", "t", "i", "c", "a", "l", " ", "i", "m", "p", "l",
         "e", "m", "e", "n", "t", "a", "t", "i", "o", "n", " ", "g", "u", "i",
         "d", "a", "n", "c", "e", ".", " ", "T", "h", "e", " ", "k", "e", "y",
         " ", "t", "o", " ", "s", "u", "c", "c", "e", "s", "s", " ", "w", "i",
         "t", "h", " ">>,
       \* " lies in consistent practice, continuous learning, and staying informed a
       \* bout emerging trends and best practices in the field. Use this knowledge a
       \* s a stepping stone to further exploration and mastery of "
       <<" ", "l", "i", "e", "s", " ", "i", "n", " ", "c", "o", "n", "s", "i",
         "s", "t", "e", "n", "t", " ", "p", "r", "a", "c", "t", "i", "c", "e",
         ",", " ", "c", "o", "n", "t", "i", "n", "u", "o", "u", "s", " ", "l",
         "e", "a", "r", "n", "i", "n", "g", ",", " ", "a", "n", "d", " ", "s",
         "t", "a", "y", "i", "n", "g", " ", "i", "n", "f", "o", "r", "m", "e",
         "d", " ", "a", "b", "o", "u", "t", " ", "e", "m", "e", "r", "g", "i",
         "n", "g", " ", "t", "r", "e", "n", "d", "s", " ", "a", "n", "d", " ",
         "b", "e", "s", "t", " ", "p", "r", "a", "c", "t", "i", "c", "e", "s",
         " ", "i", "n", " ", "t", "h", "e", " ", "f", "i", "e", "l", "d", ".",
         " ", "U", "s", "e", " ", "t", "h", "i", "s", " ", "k", "n", "o", "w",
         "l", "e", "d", "g", "e", " ", "a", "s", " ", "a", " ", "s", "t", "e",
         "p", "p", "i", "n", "g", " ", "s", "t", "o", "n", "e", " ", "t", "o",
         " ", "f", "u", "r", "t", "h", "e", "r", " ", "e", "x", "p", "l", "o",
         "r", "a", "t", "i", "o", "n", " ", "a", "n", "d", " ", "m", "a", "s",
         "t", "e", "r", "y", " ", "o", "f", " ">>,
       \* "."
       <<".">> >>

\* the audience contexts, the calls to action and the keyword sentence of the conclusion
ConclusionText ==
    << \* "newcomers to the field"
       <<"n", "e", "w", "c", "o", "m", "e", "r", "s", " ", "t", "o", " ", "t",
         "h", "e", " ", "f", "i", "e", "l", "d">>,
       \* "developers with growing expertise"
       <<"d", "e", "v", "e", "l", "o", "p", "e", "r", "s", " ", "w", "i", "t",
         "h", " ", "g", "r", "o", "w", "i", "n", "g", " ", "e", "x", "p", "e",
         "r", "t", "i", "s", "e">>,
       \* "experienced professionals"
       <<"e", "x", "p", "e", "r", "i", "e", "n", "c", "e", "d", " ", "p", "r",
         "o", "f", "e", "s", "s", "i", "o", "n", "a", "l", "s">>,
       \* "developers"
       <<"d", "e", "v", "e", "l", "o", "p", "e", "r", "s">>,
       \* " Start implementing "
       <<" ", "S", "t", "a", "r", "t", " ", "i", "m", "p", "l", "e", "m", "e",
         "n", "t", "i", "n", "g", " ">>,
       \* " in your next project and experience the benefits firsthand."
       <<" ", "i", "n", " ", "y", "o", "u", "r", " ", "n", "e", "x", "t", " ",
         "p", "r", "o", "j", "e", "c", "t", " ", "a", "n", "d", " ", "e", "x",
         "p", "e", "r", "i", "e", "n", "c", "e", " ", "t", "h", "e", " ", "b",
         "e", "n", "e", "f", "i", "t", "s", " ", "f", "i", "r", "s", "t", "h",
         "a", "n", "d", ".">>,
       \* " Join the community of developers who are successfully using "
       <<" ", "J", "o", "i", "n", " ", "t", "h", "e", " ", "c", "o", "m", "m",
         "u", "n", "i", "t", "y", " ", "o", "f", " ", "d", "e", "v", "e", "l",
         "o", "p", "e", "r", "s", " ", "w", "h", "o", " ", "a", "r", "e", " ",
         "s", "u", "c", "c", "e", "s", "s", "f", "u", "l", "l", "y", " ", "u",
         "s", "i", "n", "g", " ">>,
       \* " to build better applications."
       <<" ", "t", "o", " ", "b", "u", "i", "l", "d", " ", "b", "e", "t", "t",
         "e", "r", " ", "a", "p", "p", "l", "i", "c", "a", "t", "i", "o", "n",
         "s", ".">>,
       \* " Continue your learning journey by exploring advanced "
       <<" ", "C", "o", "n", "t", "i", "n", "u", "e", " ", "y", "o", "u", "r",
         " ", "l", "e", "a", "r", "n", "i", "n", "g", " ", "j", "o", "u", "r",
         "n", "e", "y", " ", "b", "y", " ", "e", "x", "p", "l", "o", "r", "i",
         "n", "g", " ", "a", "d", "v", "a", "n", "c", "e", "d", " ">>,
       \* " resources and documentation."
       <<" ", "r", "e", "s", "o", "u", "r", "c", "e", "s", " ", "a", "n", "d",
         " ", "d", "o", "c", "u", "m", "e", "n", "t", "a", "t", "i", "o", "n",
         ".">>,
       \* " Focus on mastering "
       <<" ", "F", "o", "c", "u", "s", " ", "o", "n", " ", "m", "a", "s", "t",
         "e", "r", "i", "n", "g", " ">>,
       \* " as your next steps in the "
       <<" ", "a", "s", " ", "y", "o", "u", "r", " ", "n", "e", "x", "t", " ",
         "s", "t", "e", "p", "s", " ", "i", "n", " ", "t", "h", "e", " ">>,
       \* " ecosystem."
       <<" ", "e", "c", "o", "s", "y", "s", "t", "e", "m", ".">> >>

\* audience_contexts.get(audience, "developers")
ConclusionContext(audience) ==
    IF audience = A_Beginner THEN ConclusionText[1]
    ELSE IF audience = A_Intermediate THEN ConclusionText[2]
    ELSE IF audience = A_Advanced THEN ConclusionText[3]
    ELSE ConclusionText[4]

\* the two random.choice calls are the numbers template and cta
_generate_conclusion(topic, audience, keywords, template, cta) ==
    LET audience_context == ConclusionContext(audience)
        templates == <<
            ConclusionTemplateText[1] \o topic \o ConclusionTemplateText[2] \o topic \o ConclusionTemplateText[3] \o topic \o ConclusionTemplateText[4],
            ConclusionTemplateText[5] \o topic \o ConclusionTemplateText[6] \o audience_context \o ConclusionTemplateText[7] \o topic \o ConclusionTemplateText[8],
            ConclusionTemplateText[9] \o topic \o ConclusionTemplateText[10] \o topic \o ConclusionTemplateText[11] \o topic \o ConclusionTemplateText[12] >>
        cta_options == <<
            ConclusionText[5] \o topic \o ConclusionText[6],
            ConclusionText[7] \o topic \o ConclusionText[8],
            ConclusionText[9] \o topic \o ConclusionText[10] >>
    IN templates[template]
         \o cta_options[cta]
         \o (IF keywords # << >> THEN ConclusionText[11] \o Join(Take(keywords, 2), CommaBlank) \o ConclusionText[12] \o topic \o ConclusionText[13] ELSE << >>)

\* the keywords of core_concepts
CoreConceptsKeywords ==
    << \* "concept"
       <<"c", "o", "n", "c", "e", "p", "t">>,
       \* "fundamental"
       <<"f", "u", "n", "d", "a", "m", "e", "n", "t", "a", "l">>,
       \* "basic"
       <<"b", "a", "s", "i", "c">>,
       \* "theory"
       <<"t", "h", "e", "o", "r", "y">> >>

\* the keywords of implementation
ImplementationKeywords ==
    << \* "implementation"
       <<"i", "m", "p", "l", "e", "m", "e", "n", "t", "a", "t", "i", "o", "n">>,
       \* "guide"
       <<"g", "u", "i", "d", "e">>,
       \* "how to"
       <<"h", "o", "w", " ", "t", "o">>,
       \* "step"
       <<"s", "t", "e", "p">> >>

\* the keywords of best_practices
BestPracticesKeywords ==
    << \* "best practice"
       <<"b", "e", "s", "t", " ", "p", "r", "a", "c", "t", "i", "c", "e">>,
       \* "tips"
       <<"t", "i", "p", "s">>,
       \* "recommendation"
       <<"r", "e", "c", "o", "m", "m", "e", "n", "d", "a", "t", "i", "o", "n">> >>

\* the keywords of examples
ExamplesKeywords ==
    << \* "example"
       <<"e", "x", "a", "m", "p", "l", "e">>,
       \* "case study"
       <<"c", "a", "s", "e", " ", "s", "t", "u", "d", "y">>,
       \* "real-world"
       <<"r", "e", "a", "l", "-", "w", "o", "r", "l", "d">>,
       \* "practical"
       <<"p", "r", "a", "c", "t", "i", "c", "a", "l">> >>

\* the keywords of advanced_techniques
AdvancedKeywords ==
    << \* "advanced"
       <<"a", "d", "v", "a", "n", "c", "e", "d">>,
       \* "expert"
       <<"e", "x", "p", "e", "r", "t">>,
       \* "complex"
       <<"c", "o", "m", "p", "l", "e", "x">> >>

\* the keywords of performance
PerformanceKeywords ==
    << \* "performance"
       <<"p", "e", "r", "f", "o", "r", "m", "a", "n", "c", "e">>,
       \* "optimization"
       <<"o", "p", "t", "i", "m", "i", "z", "a", "t", "i", "o", "n">>,
       \* "speed"
       <<"s", "p", "e", "e", "d">> >>

\* variant: the best practices keywords are tried before the implementation keywords
_classify_section_type_best_first(title) ==
    LET title_lower == lower(title)
        any(keywords) == \E k \in 1..Len(keywords) : Contains(title_lower, keywords[k])
    IN IF any(<<CoreConceptsKeywords[1], CoreConceptsKeywords[2], CoreConceptsKeywords[3], CoreConceptsKeywords[4]>>) THEN "core_concepts"
       ELSE IF any(<<BestPracticesKeywords[1], BestPracticesKeywords[2], BestPracticesKeywords[3]>>) THEN "best_practices"
       ELSE IF any(<<ImplementationKeywords[1], ImplementationKeywords[2], ImplementationKeywords[3], ImplementationKeywords[4]>>) THEN "implementation"
       ELSE IF any(<<ExamplesKeywords[1], ExamplesKeywords[2], ExamplesKeywords[3], ExamplesKeywords[4]>>) THEN "examples"
       ELSE IF any(<<AdvancedKeywords[1], AdvancedKeywords[2], AdvancedKeywords[3]>>) THEN "advanced_techniques"
       ELSE IF any(<<PerformanceKeywords[1], PerformanceKeywords[2], PerformanceKeywords[3]>>) THEN "performance"
       ELSE "generic"

_classify_section_type(title) ==
    LET title_lower == lower(title)
        any(keywords) == \E k \in 1..Len(keywords) : Contains(title_lower, keywords[k])
    IN IF any(<<CoreConceptsKeywords[1], CoreConceptsKeywords[2], CoreConceptsKeywords[3], CoreConceptsKeywords[4]>>) THEN "core_concepts"
       ELSE IF any(<<ImplementationKeywords[1], ImplementationKeywords[2], ImplementationKeywords[3], ImplementationKeywords[4]>>) THEN "implementation"
       ELSE IF any(<<BestPracticesKeywords[1], BestPracticesKeywords[2], BestPracticesKeywords[3]>>) THEN "best_practices"
       ELSE IF any(<<ExamplesKeywords[1], ExamplesKeywords[2], ExamplesKeywords[3], ExamplesKeywords[4]>>) THEN "examples"
       ELSE IF any(<<AdvancedKeywords[1], AdvancedKeywords[2], AdvancedKeywords[3]>>) THEN "advanced_techniques"
       ELSE IF any(<<PerformanceKeywords[1], PerformanceKeywords[2], PerformanceKeywords[3]>>) THEN "performance"
       ELSE "generic"

\* the text of the core concepts section, cut at its parameters
CoreConceptsText ==
    << \* "## "
       <<"#", "#", " ">>,
       \* "\n\nTo effectively work with "
       <<"\n", "\n", "T", "o", " ", "e", "f", "f", "e", "c", "t", "i", "v", "e",
         "l", "y", " ", "w", "o", "r", "k", " ", "w", "i", "t", "h", " ">>,
       \* ", it's essential to understand the fundamental concepts that form its fou
       \* ndation. These core principles will guide your implementation decisions an
       \* d help you avoid common pitfalls.\n\n**Architecture and Design Patterns**:
       \*  "
       <<",", " ", "i", "t", "'", "s", " ", "e", "s", "s", "e", "n", "t", "i",
         "a", "l", " ", "t", "o", " ", "u", "n", "d", "e", "r", "s", "t", "a",
         "n", "d", " ", "t", "h", "e", " ", "f", "u", "n", "d", "a", "m", "e",
         "n", "t", "a", "l", " ", "c", "o", "n", "c", "e", "p", "t", "s", " ",
         "t", "h", "a", "t", " ", "f", "o", "r", "m", " ", "i", "t", "s", " ",
         "f", "o", "u", "n", "d", "a", "t", "i", "o", "n", ".", " ", "T", "h",
         "e", "s", "e", " ", "c", "o", "r", "e", " ", "p", "r", "i", "n", "c",
         "i", "p", "l", "e", "s", " ", "w", "i", "l", "l", " ", "g", "u", "i",
         "d", "e", " ", "y", "o", "u", "r", " ", "i", "m", "p", "l", "e", "m",
         "e", "n", "t", "a", "t", "i", "o", "n", " ", "d", "e", "c", "i", "s",
         "i", "o", "n", "s", " ", "a", "n", "d", " ", "h", "e", "l", "p", " ",
         "y", "o", "u", " ", "a", "v", "o", "i", "d", " ", "c", "o", "m", "m",
         "o", "n", " ", "p", "i", "t", "f", "a", "l", "l", "s", ".", "\n", "\n",
         "*", "*", "A", "r", "c", "h", "i", "t", "e", "c", "t", "u", "r", "e",
         " ", "a", "n", "d", " ", "D", "e", "s", "i", "g", "n", " ", "P", "a",
         "t", "t", "e", "r", "n", "s", "*", "*", ":", " ">>,
       \* " follows specific architectural patterns that promote scalability and mai
       \* ntainability. Understanding these patterns is crucial for building robust 
       \* applications.\n\n**Key Components**: The main components of "
       <<" ", "f", "o", "l", "l", "o", "w", "s", " ", "s", "p", "e", "c", "i",
         "f", "i", "c", " ", "a", "r", "c", "h", "i", "t", "e", "c", "t", "u",
         "r", "a", "l", " ", "p", "a", "t", "t", "e", "r", "n", "s", " ", "t",
         "h", "a", "t", " ", "p", "r", "o", "m", "o", "t", "e", " ", "s", "c",
         "a", "l", "a", "b", "i", "l", "i", "t", "y", " ", "a", "n", "d", " ",
         "m", "a", "i", "n", "t", "a", "i", "n", "a", "b", "i", "l", "i", "t",
         "y", ".", " ", "U", "n", "d", "e", "r", "s", "t", "a", "n", "d", "i",
         "n", "g", " ", "t", "h", "e", "s", "e", " ", "p", "a", "t", "t", "e",
         "r", "n", "s", " ", "i", "s", " ", "c", "r", "u", "c", "i", "a", "l",
         " ", "f", "o", "r", " ", "b", "u", "i", "l", "d", "i", "n", "g", " ",
         "r", "o", "b", "u", "s", "t", " ", "a", "p", "p", "l", "i", "c", "a",
         "t", "i", "o", "n", "s", ".", "\n", "\n", "*", "*", "K", "e", "y", " ",
         "C", "o", "m", "p", "o", "n", "e", "n", "t", "s", "*", "*", ":", " ",
         "T", "h", "e", " ", "m", "a", "i", "n", " ", "c", "o", "m", "p", "o",
         "n", "e", "n", "t", "s", " ", "o", "f", " ">>,
       \* " work together to provide a comprehensive solution. Each component has sp
       \* ecific responsibilities and interfaces.\n\n**Data Flow and Processing**: H
       \* ow data moves through "
       <<" ", "w", "o", "r", "k", " ", "t", "o", "g", "e", "t", "h", "e", "r",
         " ", "t", "o", " ", "p", "r", "o", "v", "i", "d", "e", " ", "a", " ",
         "c", "o", "m", "p", "r", "e", "h", "e", "n", "s", "i", "v", "e", " ",
         "s", "o", "l", "u", "t", "i", "o", "n", ".", " ", "E", "a", "c", "h",
         " ", "c", "o", "m", "p", "o", "n", "e", "n", "t", " ", "h", "a", "s",
         " ", "s", "p", "e", "c", "i", "f", "i", "c", " ", "r", "e", "s", "p",
         "o", "n", "s", "i", "b", "i", "l", "i", "t", "i", "e", "s", " ", "a",
         "n", "d", " ", "i", "n", "t", "e", "r", "f", "a", "c", "e", "s", ".",
         "\n", "\n", "*", "*", "D", "a", "t", "a", " ", "F", "l", "o", "w", " ",
         "a", "n", "d", " ", "P", "r", "o", "c", "e", "s", "s", "i", "n", "g",
         "*", "*", ":", " ", "H", "o", "w", " ", "d", "a", "t", "a", " ", "m",
         "o", "v", "e", "s", " ", "t", "h", "r", "o", "u", "g", "h", " ">>,
       \* " systems affects performance and reliability. Understanding this flow hel
       \* ps optimize your implementations.\n\n**Integration Points**: "
       <<" ", "s", "y", "s", "t", "e", "m", "s", " ", "a", "f", "f", "e", "c",
         "t", "s", " ", "p", "e", "r", "f", "o", "r", "m", "a", "n", "c", "e",
         " ", "a", "n", "d", " ", "r", "e", "l", "i", "a", "b", "i", "l", "i",
         "t", "y", ".", " ", "U", "n", "d", "e", "r", "s", "t", "a", "n", "d",
         "i", "n", "g", " ", "t", "h", "i", "s", " ", "f", "l", "o", "w", " ",
         "h", "e", "l", "p", "s", " ", "o", "p", "t", "i", "m", "i", "z", "e",
         " ", "y", "o", "u", "r", " ", "i", "m", "p", "l", "e", "m", "e", "n",
         "t", "a", "t", "i", "o", "n", "s", ".", "\n", "\n", "*", "*", "I", "n",
         "t", "e", "g", "r", "a", "t", "i", "o", "n", " ", "P", "o", "i", "n",
         "t", "s", "*", "*", ":", " ">>,
       \* " typically integrates with other systems and technologies. Knowing these 
       \* integration patterns is essential for real-world applications.\n\nWhen wor
       \* king with "
       <<" ", "t", "y", "p", "i", "c", "a", "l", "l", "y", " ", "i", "n", "t",
         "e", "g", "r", "a", "t", "e", "s", " ", "w", "i", "t", "h", " ", "o",
         "t", "h", "e", "r", " ", "s", "y", "s", "t", "e", "m", "s", " ", "a",
         "n", "d", " ", "t", "e", "c", "h", "n", "o", "l", "o", "g", "i", "e",
         "s", ".", " ", "K", "n", "o", "w", "i", "n", "g", " ", "t", "h", "e",
         "s", "e", " ", "i", "n", "t", "e", "g", "r", "a", "t", "i", "o", "n",
         " ", "p", "a", "t", "t", "e", "r", "n", "s", " ", "i", "s", " ", "e",
         "s", "s", "e", "n", "t", "i", "a", "l", " ", "f", "o", "r", " ", "r",
         "e", "a", "l", "-", "w", "o", "r", "l", "d", " ", "a", "p", "p", "l",
         "i", "c", "a", "t", "i", "o", "n", "s", ".", "\n", "\n", "W", "h", "e",
         "n", " ", "w", "o", "r", "k", "i", "n", "g", " ", "w", "i", "t", "h",
         " ">>,
       \* ", consider how these concepts apply to your specific use case. The "
       <<",", " ", "c", "o", "n", "s", "i", "d", "e", "r", " ", "h", "o", "w",
         " ", "t", "h", "e", "s", "e", " ", "c", "o", "n", "c", "e", "p", "t",
         "s", " ", "a", "p", "p", "l", "y", " ", "t", "o", " ", "y", "o", "u",
         "r", " ", "s", "p", "e", "c", "i", "f", "i", "c", " ", "u", "s", "e",
         " ", "c", "a", "s", "e", ".", " ", "T", "h", "e", " ">>,
       \* "-level approach focuses on practical application while maintaining theore
       \* tical understanding.\n\n"
       <<"-", "l", "e", "v", "e", "l", " ", "a", "p", "p", "r", "o", "a", "c",
         "h", " ", "f", "o", "c", "u", "s", "e", "s", " ", "o", "n", " ", "p",
         "r", "a", "c", "t", "i", "c", "a", "l", " ", "a", "p", "p", "l", "i",
         "c", "a", "t", "i", "o", "n", " ", "w", "h", "i", "l", "e", " ", "m",
         "a", "i", "n", "t", "a", "i", "n", "i", "n", "g", " ", "t", "h", "e",
         "o", "r", "e", "t", "i", "c", "a", "l", " ", "u", "n", "d", "e", "r",
         "s", "t", "a", "n", "d", "i", "n", "g", ".", "\n", "\n">>,
       \* "Key areas to focus on include "
       <<"K", "e", "y", " ", "a", "r", "e", "a", "s", " ", "t", "o", " ", "f",
         "o", "c", "u", "s", " ", "o", "n", " ", "i", "n", "c", "l", "u", "d",
         "e", " ">>,
       \* ", which represent the most important aspects for practical implementation
       \* .\n\n"
       <<",", " ", "w", "h", "i", "c", "h", " ", "r", "e", "p", "r", "e", "s",
         "e", "n", "t", " ", "t", "h", "e", " ", "m", "o", "s", "t", " ", "i",
         "m", "p", "o", "r", "t", "a", "n", "t", " ", "a", "s", "p", "e", "c",
         "t", "s", " ", "f", "o", "r", " ", "p", "r", "a", "c", "t", "i", "c",
         "a", "l", " ", "i", "m", "p", "l", "e", "m", "e", "n", "t", "a", "t",
         "i", "o", "n", ".", "\n", "\n">> >>

\* generate core concepts section: the loops over the fixed lists are unrolled
_generate_core_concepts_section(topic, title, description, word_count, audience, keywords) ==
    ConcatAll(<<
        CoreConceptsText[1], title, CoreConceptsText[2], topic, CoreConceptsText[3], topic,
        CoreConceptsText[4], topic, CoreConceptsText[5], topic, CoreConceptsText[6], topic,
        CoreConceptsText[7], topic, CoreConceptsText[8], audience, CoreConceptsText[9] >>)
      \o (IF keywords # << >>
            THEN ConcatAll(<<
                CoreConceptsText[10], Join(Take(keywords, 3), CommaBlank),
                CoreConceptsText[11] >>)
            ELSE << >>)

\* the text of the implementation section, cut at its parameters
ImplementationText ==
    << \* "## "
       <<"#", "#", " ">>,
       \* "\n\nImplementing "
       <<"\n", "\n", "I", "m", "p", "l", "e", "m", "e", "n", "t", "i", "n", "g",
         " ">>,
       \* " requires a systematic approach that ensures both functionality and maint
       \* ainability. This section provides step-by-step guidance for successful imp
       \* lementation.\n\n### Step 1: Environment Setup\n\nPrepare your development 
       \* environment with the necessary tools and dependencies.\n\n'''python\n# Exa
       \* mple code for environment setup\n# This demonstrates the implementation of
       \*  "
       <<" ", "r", "e", "q", "u", "i", "r", "e", "s", " ", "a", " ", "s", "y",
         "s", "t", "e", "m", "a", "t", "i", "c", " ", "a", "p", "p", "r", "o",
         "a", "c", "h", " ", "t", "h", "a", "t", " ", "e", "n", "s", "u", "r",
         "e", "s", " ", "b", "o", "t", "h", " ", "f", "u", "n", "c", "t", "i",
         "o", "n", "a", "l", "i", "t", "y", " ", "a", "n", "d", " ", "m", "a",
         "i", "n", "t", "a", "i", "n", "a", "b", "i", "l", "i", "t", "y", ".",
         " ", "T", "h", "i", "s", " ", "s", "e", "c", "t", "i", "o", "n", " ",
         "p", "r", "o", "v", "i", "d", "e", "s", " ", "s", "t", "e", "p", "-",
         "b", "y", "-", "s", "t", "e", "p", " ", "g", "u", "i", "d", "a", "n",
         "c", "e", " ", "f", "o", "r", " ", "s", "u", "c", "c", "e", "s", "s",
         "f", "u", "l", " ", "i", "m", "p", "l", "e", "m", "e", "n", "t", "a",
         "t", "i", "o", "n", ".", "\n", "\n", "#", "#", "#", " ", "S", "t", "e",
         "p", " ", "1", ":", " ", "E", "n", "v", "i", "r", "o", "n", "m", "e",
         "n", "t", " ", "S", "e", "t", "u", "p", "\n", "\n", "P", "r", "e", "p",
         "a", "r", "e", " ", "y", "o", "u", "r", " ", "d", "e", "v", "e", "l",
         "o", "p", "m", "e", "n", "t", " ", "e", "n", "v", "i", "r", "o", "n",
         "m", "e", "n", "t", " ", "w", "i", "t", "h", " ", "t", "h", "e", " ",
         "n", "e", "c", "e", "s", "s", "a", "r", "y", " ", "t", "o", "o", "l",
         "s", " ", "a", "n", "d", " ", "d", "e", "p", "e", "n", "d", "e", "n",
         "c", "i", "e", "s", ".", "\n", "\n", BQ, BQ, BQ, "p", "y", "t", "h",
         "o", "n", "\n", "#", " ", "E", "x", "a", "m", "p", "l", "e", " ", "c",
         "o", "d", "e", " ", "f", "o", "r", " ", "e", "n", "v", "i", "r", "o",
         "n", "m", "e", "n", "t", " ", "s", "e", "t", "u", "p", "\n", "#", " ",
         "T", "h", "i", "s", " ", "d", "e", "m", "o", "n", "s", "t", "r", "a",
         "t", "e", "s", " ", "t", "h", "e", " ", "i", "m", "p", "l", "e", "m",
         "e", "n", "t", "a", "t", "i", "o", "n", " ", "o", "f", " ">>,
       \* "\n# Replace with actual implementation code\n'''\n\n### Step 2: Initial C
       \* onfiguration\n\nConfigure the basic settings and parameters for your imple
       \* mentation.\n\n'''python\n# Example code for initial configuration\n# This 
       \* demonstrates the implementation of "
       <<"\n", "#", " ", "R", "e", "p", "l", "a", "c", "e", " ", "w", "i", "t",
         "h", " ", "a", "c", "t", "u", "a", "l", " ", "i", "m", "p", "l", "e",
         "m", "e", "n", "t", "a", "t", "i", "o", "n", " ", "c", "o", "d", "e",
         "\n", BQ, BQ, BQ, "\n", "\n", "#", "#", "#", " ", "S", "t", "e", "p",
         " ", "2", ":", " ", "I", "n", "i", "t", "i", "a", "l", " ", "C", "o",
         "n", "f", "i", "g", "u", "r", "a", "t", "i", "o", "n", "\n", "\n", "C",
         "o", "n", "f", "i", "g", "u", "r", "e", " ", "t", "h", "e", " ", "b",
         "a", "s", "i", "c", " ", "s", "e", "t", "t", "i", "n", "g", "s", " ",
         "a", "n", "d", " ", "p", "a", "r", "a", "m", "e", "t", "e", "r", "s",
         " ", "f", "o", "r", " ", "y", "o", "u", "r", " ", "i", "m", "p", "l",
         "e", "m", "e", "n", "t", "a", "t", "i", "o", "n", ".", "\n", "\n", BQ,
         BQ, BQ, "p", "y", "t", "h", "o", "n", "\n", "#", " ", "E", "x", "a",
         "m", "p", "l", "e", " ", "c", "o", "d", "e", " ", "f", "o", "r", " ",
         "i", "n", "i", "t", "i", "a", "l", " ", "c", "o", "n", "f", "i", "g",
         "u", "r", "a", "t", "i", "o", "n", "\n", "#", " ", "T", "h", "i", "s",
         " ", "d", "e", "m", "o", "n", "s", "t", "r", "a", "t", "e", "s", " ",
         "t", "h", "e", " ", "i", "m", "p", "l", "e", "m", "e", "n", "t", "a",
         "t", "i", "o", "n", " ", "o", "f", " ">>,
       \* "\n# Replace with actual implementation code\n'''\n\n### Step 3: Core Impl
       \* ementation\n\nBuild the main functionality following established patterns 
       \* and best practices.\n\n'''python\n# Example code for core implementation\n
       \* # This demonstrates the implementation of "
       <<"\n", "#", " ", "R", "e", "p", "l", "a", "c", "e", " ", "w", "i", "t",
         "h", " ", "a", "c", "t", "u", "a", "l", " ", "i", "m", "p", "l", "e",
         "m", "e", "n", "t", "a", "t", "i", "o", "n", " ", "c", "o", "d", "e",
         "\n", BQ, BQ, BQ, "\n", "\n", "#", "#", "#", " ", "S", "t", "e", "p",
         " ", "3", ":", " ", "C", "o", "r", "e", " ", "I", "m", "p", "l", "e",
         "m", "e", "n", "t", "a", "t", "i", "o", "n", "\n", "\n", "B", "u", "i",
         "l", "d", " ", "t", "h", "e", " ", "m", "a", "i", "n", " ", "f", "u",
         "n", "c", "t", "i", "o", "n", "a", "l", "i", "t", "y", " ", "f", "o",
         "l", "l", "o", "w", "i", "n", "g", " ", "e", "s", "t", "a", "b", "l",
         "i", "s", "h", "e", "d", " ", "p", "a", "t", "t", "e", "r", "n", "s",
         " ", "a", "n", "d", " ", "b", "e", "s", "t", " ", "p", "r", "a", "c",
         "t", "i", "c", "e", "s", ".", "\n", "\n", BQ, BQ, BQ, "p", "y", "t",
         "h", "o", "n", "\n", "#", " ", "E", "x", "a", "m", "p", "l", "e", " ",
         "c", "o", "d", "e", " ", "f", "o", "r", " ", "c", "o", "r", "e", " ",
         "i", "m", "p", "l", "e", "m", "e", "n", "t", "a", "t", "i", "o", "n",
         "\n", "#", " ", "T", "h", "i", "s", " ", "d", "e", "m", "o", "n", "s",
         "t", "r", "a", "t", "e", "s", " ", "t", "h", "e", " ", "i", "m", "p",
         "l", "e", "m", "e", "n", "t", "a", "t", "i", "o", "n", " ", "o", "f",
         " ">>,
       \* "\n# Replace with actual implementation code\n'''\n\n### Step 4: Testing a
       \* nd Validation\n\nImplement comprehensive testing to ensure your solution w
       \* orks correctly.\n\n'''python\n# Example code for testing and validation\n#
       \*  This demonstrates the implementation of "
       <<"\n", "#", " ", "R", "e", "p", "l", "a", "c", "e", " ", "w", "i", "t",
         "h", " ", "a", "c", "t", "u", "a", "l", " ", "i", "m", "p", "l", "e",
         "m", "e", "n", "t", "a", "t", "i", "o", "n", " ", "c", "o", "d", "e",
         "\n", BQ, BQ, BQ, "\n", "\n", "#", "#", "#", " ", "S", "t", "e", "p",
         " ", "4", ":", " ", "T", "e", "s", "t", "i", "n", "g", " ", "a", "n",
         "d", " ", "V", "a", "l", "i", "d", "a", "t", "i", "o", "n", "\n", "\n",
         "I", "m", "p", "l", "e", "m", "e", "n", "t", " ", "c", "o", "m", "p",
         "r", "e", "h", "e", "n", "s", "i", "v", "e", " ", "t", "e", "s", "t",
         "i", "n", "g", " ", "t", "o", " ", "e", "n", "s", "u", "r", "e", " ",
         "y", "o", "u", "r", " ", "s", "o", "l", "u", "t", "i", "o", "n", " ",
         "w", "o", "r", "k", "s", " ", "c", "o", "r", "r", "e", "c", "t", "l",
         "y", ".", "\n", "\n", BQ, BQ, BQ, "p", "y", "t", "h", "o", "n", "\n",
         "#", " ", "E", "x", "a", "m", "p", "l", "e", " ", "c", "o", "d", "e",
         " ", "f", "o", "r", " ", "t", "e", "s", "t", "i", "n", "g", " ", "a",
         "n", "d", " ", "v", "a", "l", "i", "d", "a", "t", "i", "o", "n", "\n",
         "#", " ", "T", "h", "i", "s", " ", "d", "e", "m", "o", "n", "s", "t",
         "r", "a", "t", "e", "s", " ", "t", "h", "e", " ", "i", "m", "p", "l",
         "e", "m", "e", "n", "t", "a", "t", "i", "o", "n", " ", "o", "f", " ">>,
       \* "\n# Replace with actual implementation code\n'''\n\n### Step 5: Optimizat
       \* ion and Refinement\n\nFine-tune your implementation for performance and re
       \* liability.\n\n'''python\n# Example code for optimization and refinement\n#
       \*  This demonstrates the implementation of "
       <<"\n", "#", " ", "R", "e", "p", "l", "a", "c", "e", " ", "w", "i", "t",
         "h", " ", "a", "c", "t", "u", "a", "l", " ", "i", "m", "p", "l", "e",
         "m", "e", "n", "t", "a", "t", "i", "o", "n", " ", "c", "o", "d", "e",
         "\n", BQ, BQ, BQ, "\n", "\n", "#", "#", "#", " ", "S", "t", "e", "p",
         " ", "5", ":", " ", "O", "p", "t", "i", "m", "i", "z", "a", "t", "i",
         "o", "n", " ", "a", "n", "d", " ", "R", "e", "f", "i", "n", "e", "m",
         "e", "n", "t", "\n", "\n", "F", "i", "n", "e", "-", "t", "u", "n", "e",
         " ", "y", "o", "u", "r", " ", "i", "m", "p", "l", "e", "m", "e", "n",
         "t", "a", "t", "i", "o", "n", " ", "f", "o", "r", " ", "p", "e", "r",
         "f", "o", "r", "m", "a", "n", "c", "e", " ", "a", "n", "d", " ", "r",
         "e", "l", "i", "a", "b", "i", "l", "i", "t", "y", ".", "\n", "\n", BQ,
         BQ, BQ, "p", "y", "t", "h", "o", "n", "\n", "#", " ", "E", "x", "a",
         "m", "p", "l", "e", " ", "c", "o", "d", "e", " ", "f", "o", "r", " ",
         "o", "p", "t", "i", "m", "i", "z", "a", "t", "i", "o", "n", " ", "a",
         "n", "d", " ", "r", "e", "f", "i", "n", "e", "m", "e", "n", "t", "\n",
         "#", " ", "T", "h", "i", "s", " ", "d", "e", "m", "o", "n", "s", "t",
         "r", "a", "t", "e", "s", " ", "t", "h", "e", " ", "i", "m", "p", "l",
         "e", "m", "e", "n", "t", "a", "t", "i", "o", "n", " ", "o", "f", " ">>,
       \* "\n# Replace with actual implementation code\n'''\n\n### Common Implementa
       \* tion Challenges\n\nWhen implementing "
       <<"\n", "#", " ", "R", "e", "p", "l", "a", "c", "e", " ", "w", "i", "t",
         "h", " ", "a", "c", "t", "u", "a", "l", " ", "i", "m", "p", "l", "e",
         "m", "e", "n", "t", "a", "t", "i", "o", "n", " ", "c", "o", "d", "e",
         "\n", BQ, BQ, BQ, "\n", "\n", "#", "#", "#", " ", "C", "o", "m", "m",
         "o", "n", " ", "I", "m", "p", "l", "e", "m", "e", "n", "t", "a", "t",
         "i", "o", "n", " ", "C", "h", "a", "l", "l", "e", "n", "g", "e", "s",
         "\n", "\n", "W", "h", "e", "n", " ", "i", "m", "p", "l", "e", "m", "e",
         "n", "t", "i", "n", "g", " ">>,
       \* ", you may encounter several common challenges. Here are the most frequent
       \*  issues and their solutions:\n\n- **Configuration Issues**: Ensure all con
       \* figuration parameters are correctly set and validated.\n- **Performance Bo
       \* ttlenecks**: Monitor performance metrics and optimize critical paths.\n- *
       \* *Integration Problems**: Verify compatibility with existing systems and de
       \* pendencies.\n\n"
       <<",", " ", "y", "o", "u", " ", "m", "a", "y", " ", "e", "n", "c", "o",
         "u", "n", "t", "e", "r", " ", "s", "e", "v", "e", "r", "a", "l", " ",
         "c", "o", "m", "m", "o", "n", " ", "c", "h", "a", "l", "l", "e", "n",
         "g", "e", "s", ".", " ", "H", "e", "r", "e", " ", "a", "r", "e", " ",
         "t", "h", "e", " ", "m", "o", "s", "t", " ", "f", "r", "e", "q", "u",
         "e", "n", "t", " ", "i", "s", "s", "u", "e", "s", " ", "a", "n", "d",
         " ", "t", "h", "e", "i", "r", " ", "s", "o", "l", "u", "t", "i", "o",
         "n", "s", ":", "\n", "\n", "-", " ", "*", "*", "C", "o", "n", "f", "i",
         "g", "u", "r", "a", "t", "i", "o", "n", " ", "I", "s", "s", "u", "e",
         "s", "*", "*", ":", " ", "E", "n", "s", "u", "r", "e", " ", "a", "l",
         "l", " ", "c", "o", "n", "f", "i", "g", "u", "r", "a", "t", "i", "o",
         "n", " ", "p", "a", "r", "a", "m", "e", "t", "e", "r", "s", " ", "a",
         "r", "e", " ", "c", "o", "r", "r", "e", "c", "t", "l", "y", " ", "s",
         "e", "t", " ", "a", "n", "d", " ", "v", "a", "l", "i", "d", "a", "t",
         "e", "d", ".", "\n", "-", " ", "*", "*", "P", "e", "r", "f", "o", "r",
         "m", "a", "n", "c", "e", " ", "B", "o", "t", "t", "l", "e", "n", "e",
         "c", "k", "s", "*", "*", ":", " ", "M", "o", "n", "i", "t", "o", "r",
         " ", "p", "e", "r", "f", "o", "r", "m", "a", "n", "c", "e", " ", "m",
         "e", "t", "r", "i", "c", "s", " ", "a", "n", "d", " ", "o", "p", "t",
         "i", "m", "i", "z", "e", " ", "c", "r", "i", "t", "i", "c", "a", "l",
         " ", "p", "a", "t", "h", "s", ".", "\n", "-", " ", "*", "*", "I", "n",
         "t", "e", "g", "r", "a", "t", "i", "o", "n", " ", "P", "r", "o", "b",
         "l", "e", "m", "s", "*", "*", ":", " ", "V", "e", "r", "i", "f", "y",
         " ", "c", "o", "m", "p", "a", "t", "i", "b", "i", "l", "i", "t", "y",
         " ", "w", "i", "t", "h", " ", "e", "x", "i", "s", "t", "i", "n", "g",
         " ", "s", "y", "s", "t", "e", "m", "s", " ", "a", "n", "d", " ", "d",
         "e", "p", "e", "n", "d", "e", "n", "c", "i", "e", "s", ".", "\n", "\n">> >>

\* variant: the code example of the last step is never closed
_generate_implementation_section_unclosed(topic, title, description, word_count, audience, keywords) ==
    ConcatAll(<<
        ImplementationText[1], title, ImplementationText[2], topic, ImplementationText[3],
        topic, ImplementationText[4], topic, ImplementationText[5], topic,
        ImplementationText[6], topic, ImplementationText[7], topic, ImplementationText[9] >>)

\* generate implementation section: the loops over the fixed lists are unrolled
_generate_implementation_section(topic, title, description, word_count, audience, keywords) ==
    ConcatAll(<<
        ImplementationText[1], title, ImplementationText[2], topic, ImplementationText[3],
        topic, ImplementationText[4], topic, ImplementationText[5], topic,
        ImplementationText[6], topic, ImplementationText[7], topic, ImplementationText[8],
        topic, ImplementationText[9] >>)

\* the text of the best practices section, cut at its parameters
BestPracticesText ==
    << \* "## "
       <<"#", "#", " ">>,
       \* "\n\nFollowing established best practices is crucial for successful "
       <<"\n", "\n", "F", "o", "l", "l", "o", "w", "i", "n", "g", " ", "e", "s",
         "t", "a", "b", "l", "i", "s", "h", "e", "d", " ", "b", "e", "s", "t",
         " ", "p", "r", "a", "c", "t", "i", "c", "e", "s", " ", "i", "s", " ",
         "c", "r", "u", "c", "i", "a", "l", " ", "f", "o", "r", " ", "s", "u",
         "c", "c", "e", "s", "s", "f", "u", "l", " ">>,
       \* " implementation. These guidelines have been developed through industry ex
       \* perience and help ensure reliable, maintainable solutions.\n\n### Code Org
       \* anization and Structure\n\n- **Maintain clear separation of concerns**: Th
       \* is ensures your "
       <<" ", "i", "m", "p", "l", "e", "m", "e", "n", "t", "a", "t", "i", "o",
         "n", ".", " ", "T", "h", "e", "s", "e", " ", "g", "u", "i", "d", "e",
         "l", "i", "n", "e", "s", " ", "h", "a", "v", "e", " ", "b", "e", "e",
         "n", " ", "d", "e", "v", "e", "l", "o", "p", "e", "d", " ", "t", "h",
         "r", "o", "u", "g", "h", " ", "i", "n", "d", "u", "s", "t", "r", "y",
         " ", "e", "x", "p", "e", "r", "i", "e", "n", "c", "e", " ", "a", "n",
         "d", " ", "h", "e", "l", "p", " ", "e", "n", "s", "u", "r", "e", " ",
         "r", "e", "l", "i", "a", "b", "l", "e", ",", " ", "m", "a", "i", "n",
         "t", "a", "i", "n", "a", "b", "l", "e", " ", "s", "o", "l", "u", "t",
         "i", "o", "n", "s", ".", "\n", "\n", "#", "#", "#", " ", "C", "o", "d",
         "e", " ", "O", "r", "g", "a", "n", "i", "z", "a", "t", "i", "o", "n",
         " ", "a", "n", "d", " ", "S", "t", "r", "u", "c", "t", "u", "r", "e",
         "\n", "\n", "-", " ", "*", "*", "M", "a", "i", "n", "t", "a", "i", "n",
         " ", "c", "l", "e", "a", "r", " ", "s", "e", "p", "a", "r", "a", "t",
         "i", "o", "n", " ", "o", "f", " ", "c", "o", "n", "c", "e", "r", "n",
         "s", "*", "*", ":", " ", "T", "h", "i", "s", " ", "e", "n", "s", "u",
         "r", "e", "s", " ", "y", "o", "u", "r", " ">>,
       \* " implementation remains robust and maintainable.\n- **Use consistent nami
       \* ng conventions**: This ensures your "
       <<" ", "i", "m", "p", "l", "e", "m", "e", "n", "t", "a", "t", "i", "o",
         "n", " ", "r", "e", "m", "a", "i", "n", "s", " ", "r", "o", "b", "u",
         "s", "t", " ", "a", "n", "d", " ", "m", "a", "i", "n", "t", "a", "i",
         "n", "a", "b", "l", "e", ".", "\n", "-", " ", "*", "*", "U", "s", "e",
         " ", "c", "o", "n", "s", "i", "s", "t", "e", "n", "t", " ", "n", "a",
         "m", "i", "n", "g", " ", "c", "o", "n", "v", "e", "n", "t", "i", "o",
         "n", "s", "*", "*", ":", " ", "T", "h", "i", "s", " ", "e", "n", "s",
         "u", "r", "e", "s", " ", "y", "o", "u", "r", " ">>,
       \* " implementation remains robust and maintainable.\n- **Implement proper er
       \* ror handling**: This ensures your "
       <<" ", "i", "m", "p", "l", "e", "m", "e", "n", "t", "a", "t", "i", "o",
         "n", " ", "r", "e", "m", "a", "i", "n", "s", " ", "r", "o", "b", "u",
         "s", "t", " ", "a", "n", "d", " ", "m", "a", "i", "n", "t", "a", "i",
         "n", "a", "b", "l", "e", ".", "\n", "-", " ", "*", "*", "I", "m", "p",
         "l", "e", "m", "e", "n", "t", " ", "p", "r", "o", "p", "e", "r", " ",
         "e", "r", "r", "o", "r", " ", "h", "a", "n", "d", "l", "i", "n", "g",
         "*", "*", ":", " ", "T", "h", "i", "s", " ", "e", "n", "s", "u", "r",
         "e", "s", " ", "y", "o", "u", "r", " ">>,
       \* " implementation remains robust and maintainable.\n- **Document your code 
       \* thoroughly**: This ensures your "
       <<" ", "i", "m", "p", "l", "e", "m", "e", "n", "t", "a", "t", "i", "o",
         "n", " ", "r", "e", "m", "a", "i", "n", "s", " ", "r", "o", "b", "u",
         "s", "t", " ", "a", "n", "d", " ", "m", "a", "i", "n", "t", "a", "i",
         "n", "a", "b", "l", "e", ".", "\n", "-", " ", "*", "*", "D", "o", "c",
         "u", "m", "e", "n", "t", " ", "y", "o", "u", "r", " ", "c", "o", "d",
         "e", " ", "t", "h", "o", "r", "o", "u", "g", "h", "l", "y", "*", "*",
         ":", " ", "T", "h", "i", "s", " ", "e", "n", "s", "u", "r", "e", "s",
         " ", "y", "o", "u", "r", " ">>,
       \* " implementation remains robust and maintainable.\n\n### Performance and O
       \* ptimization\n\n- **Profile your application regularly**: This ensures your
       \*  "
       <<" ", "i", "m", "p", "l", "e", "m", "e", "n", "t", "a", "t", "i", "o",
         "n", " ", "r", "e", "m", "a", "i", "n", "s", " ", "r", "o", "b", "u",
         "s", "t", " ", "a", "n", "d", " ", "m", "a", "i", "n", "t", "a", "i",
         "n", "a", "b", "l", "e", ".", "\n", "\n", "#", "#", "#", " ", "P", "e",
         "r", "f", "o", "r", "m", "a", "n", "c", "e", " ", "a", "n", "d", " ",
         "O", "p", "t", "i", "m", "i", "z", "a", "t", "i", "o", "n", "\n", "\n",
         "-", " ", "*", "*", "P", "r", "o", "f", "i", "l", "e", " ", "y", "o",
         "u", "r", " ", "a", "p", "p", "l", "i", "c", "a", "t", "i", "o", "n",
         " ", "r", "e", "g", "u", "l", "a", "r", "l", "y", "*", "*", ":", " ",
         "T", "h", "i", "s", " ", "e", "n", "s", "u", "r", "e", "s", " ", "y",
         "o", "u", "r", " ">>,
       \* " implementation remains robust and maintainable.\n- **Optimize critical c
       \* ode paths**: This ensures your "
       <<" ", "i", "m", "p", "l", "e", "m", "e", "n", "t", "a", "t", "i", "o",
         "n", " ", "r", "e", "m", "a", "i", "n", "s", " ", "r", "o", "b", "u",
         "s", "t", " ", "a", "n", "d", " ", "m", "a", "i", "n", "t", "a", "i",
         "n", "a", "b", "l", "e", ".", "\n", "-", " ", "*", "*", "O", "p", "t",
         "i", "m", "i", "z", "e", " ", "c", "r", "i", "t", "i", "c", "a", "l",
         " ", "c", "o", "d", "e", " ", "p", "a", "t", "h", "s", "*", "*", ":",
         " ", "T", "h", "i", "s", " ", "e", "n", "s", "u", "r", "e", "s", " ",
         "y", "o", "u", "r", " ">>,
       \* " implementation remains robust and maintainable.\n- **Use appropriate cac
       \* hing strategies**: This ensures your "
       <<" ", "i", "m", "p", "l", "e", "m", "e", "n", "t", "a", "t", "i", "o",
         "n", " ", "r", "e", "m", "a", "i", "n", "s", " ", "r", "o", "b", "u",
         "s", "t", " ", "a", "n", "d", " ", "m", "a", "i", "n", "t", "a", "i",
         "n", "a", "b", "l", "e", ".", "\n", "-", " ", "*", "*", "U", "s", "e",
         " ", "a", "p", "p", "r", "o", "p", "r", "i", "a", "t", "e", " ", "c",
         "a", "c", "h", "i", "n", "g", " ", "s", "t", "r", "a", "t", "e", "g",
         "i", "e", "s", "*", "*", ":", " ", "T", "h", "i", "s", " ", "e", "n",
         "s", "u", "r", "e", "s", " ", "y", "o", "u", "r", " ">>,
       \* " implementation remains robust and maintainable.\n- **Monitor resource us
       \* age**: This ensures your "
       <<" ", "i", "m", "p", "l", "e", "m", "e", "n", "t", "a", "t", "i", "o",
         "n", " ", "r", "e", "m", "a", "i", "n", "s", " ", "r", "o", "b", "u",
         "s", "t", " ", "a", "n", "d", " ", "m", "a", "i", "n", "t", "a", "i",
         "n", "a", "b", "l", "e", ".", "\n", "-", " ", "*", "*", "M", "o", "n",
         "i", "t", "o", "r", " ", "r", "e", "s", "o", "u", "r", "c", "e", " ",
         "u", "s", "a", "g", "e", "*", "*", ":", " ", "T", "h", "i", "s", " ",
         "e", "n", "s", "u", "r", "e", "s", " ", "y", "o", "u", "r", " ">>,
       \* " implementation remains robust and maintainable.\n\n### Security and Reli
       \* ability\n\n- **Validate all input data**: This ensures your "
       <<" ", "i", "m", "p", "l", "e", "m", "e", "n", "t", "a", "t", "i", "o",
         "n", " ", "r", "e", "m", "a", "i", "n", "s", " ", "r", "o", "b", "u",
         "s", "t", " ", "a", "n", "d", " ", "m", "a", "i", "n", "t", "a", "i",
         "n", "a", "b", "l", "e", ".", "\n", "\n", "#", "#", "#", " ", "S", "e",
         "c", "u", "r", "i", "t", "y", " ", "a", "n", "d", " ", "R", "e", "l",
         "i", "a", "b", "i", "l", "i", "t", "y", "\n", "\n", "-", " ", "*", "*",
         "V", "a", "l", "i", "d", "a", "t", "e", " ", "a", "l", "l", " ", "i",
         "n", "p", "u", "t", " ", "d", "a", "t", "a", "*", "*", ":", " ", "T",
         "h", "i", "s", " ", "e", "n", "s", "u", "r", "e", "s", " ", "y", "o",
         "u", "r", " ">>,
       \* " implementation remains robust and maintainable.\n- **Implement proper au
       \* thentication**: This ensures your "
       <<" ", "i", "m", "p", "l", "e", "m", "e", "n", "t", "a", "t", "i", "o",
         "n", " ", "r", "e", "m", "a", "i", "n", "s", " ", "r", "o", "b", "u",
         "s", "t", " ", "a", "n", "d", " ", "m", "a", "i", "n", "t", "a", "i",
         "n", "a", "b", "l", "e", ".", "\n", "-", " ", "*", "*", "I", "m", "p",
         "l", "e", "m", "e", "n", "t", " ", "p", "r", "o", "p", "e", "r", " ",
         "a", "u", "t", "h", "e", "n", "t", "i", "c", "a", "t", "i", "o", "n",
         "*", "*", ":", " ", "T", "h", "i", "s", " ", "e", "n", "s", "u", "r",
         "e", "s", " ", "y", "o", "u", "r", " ">>,
       \* " implementation remains robust and maintainable.\n- **Use secure communic
       \* ation protocols**: This ensures your "
       <<" ", "i", "m", "p", "l", "e", "m", "e", "n", "t", "a", "t", "i", "o",
         "n", " ", "r", "e", "m", "a", "i", "n", "s", " ", "r", "o", "b", "u",
         "s", "t", " ", "a", "n", "d", " ", "m", "a", "i", "n", "t", "a", "i",
         "n", "a", "b", "l", "e", ".", "\n", "-", " ", "*", "*", "U", "s", "e",
         " ", "s", "e", "c", "u", "r", "e", " ", "c", "o", "m", "m", "u", "n",
         "i", "c", "a", "t", "i", "o", "n", " ", "p", "r", "o", "t", "o", "c",
         "o", "l", "s", "*", "*", ":", " ", "T", "h", "i", "s", " ", "e", "n",
         "s", "u", "r", "e", "s", " ", "y", "o", "u", "r", " ">>,
       \* " implementation remains robust and maintainable.\n- **Plan for failure sc
       \* enarios**: This ensures your "
       <<" ", "i", "m", "p", "l", "e", "m", "e", "n", "t", "a", "t", "i", "o",
         "n", " ", "r", "e", "m", "a", "i", "n", "s", " ", "r", "o", "b", "u",
         "s", "t", " ", "a", "n", "d", " ", "m", "a", "i", "n", "t", "a", "i",
         "n", "a", "b", "l", "e", ".", "\n", "-", " ", "*", "*", "P", "l", "a",
         "n", " ", "f", "o", "r", " ", "f", "a", "i", "l", "u", "r", "e", " ",
         "s", "c", "e", "n", "a", "r", "i", "o", "s", "*", "*", ":", " ", "T",
         "h", "i", "s", " ", "e", "n", "s", "u", "r", "e", "s", " ", "y", "o",
         "u", "r", " ">>,
       \* " implementation remains robust and maintainable.\n\n### Industry Insights
       \* \n\nLeading organizations have identified several key factors for successf
       \* ul "
       <<" ", "i", "m", "p", "l", "e", "m", "e", "n", "t", "a", "t", "i", "o",
         "n", " ", "r", "e", "m", "a", "i", "n", "s", " ", "r", "o", "b", "u",
         "s", "t", " ", "a", "n", "d", " ", "m", "a", "i", "n", "t", "a", "i",
         "n", "a", "b", "l", "e", ".", "\n", "\n", "#", "#", "#", " ", "I", "n",
         "d", "u", "s", "t", "r", "y", " ", "I", "n", "s", "i", "g", "h", "t",
         "s", "\n", "\n", "L", "e", "a", "d", "i", "n", "g", " ", "o", "r", "g",
         "a", "n", "i", "z", "a", "t", "i", "o", "n", "s", " ", "h", "a", "v",
         "e", " ", "i", "d", "e", "n", "t", "i", "f", "i", "e", "d", " ", "s",
         "e", "v", "e", "r", "a", "l", " ", "k", "e", "y", " ", "f", "a", "c",
         "t", "o", "r", "s", " ", "f", "o", "r", " ", "s", "u", "c", "c", "e",
         "s", "s", "f", "u", "l", " ">>,
       \* " adoption:\n\n1. **Team Training**: Ensure your team understands "
       <<" ", "a", "d", "o", "p", "t", "i", "o", "n", ":", "\n", "\n", "1", ".",
         " ", "*", "*", "T", "e", "a", "m", " ", "T", "r", "a", "i", "n", "i",
         "n", "g", "*", "*", ":", " ", "E", "n", "s", "u", "r", "e", " ", "y",
         "o", "u", "r", " ", "t", "e", "a", "m", " ", "u", "n", "d", "e", "r",
         "s", "t", "a", "n", "d", "s", " ">>,
       \* " concepts and best practices.\n2. **Gradual Implementation**: Start with 
       \* small, manageable projects before scaling up.\n3. **Continuous Monitoring*
       \* *: Implement monitoring and alerting for production systems.\n4. **Regular
       \*  Updates**: Stay current with "
       <<" ", "c", "o", "n", "c", "e", "p", "t", "s", " ", "a", "n", "d", " ",
         "b", "e", "s", "t", " ", "p", "r", "a", "c", "t", "i", "c", "e", "s",
         ".", "\n", "2", ".", " ", "*", "*", "G", "r", "a", "d", "u", "a", "l",
         " ", "I", "m", "p", "l", "e", "m", "e", "n", "t", "a", "t", "i", "o",
         "n", "*", "*", ":", " ", "S", "t", "a", "r", "t", " ", "w", "i", "t",
         "h", " ", "s", "m", "a", "l", "l", ",", " ", "m", "a", "n", "a", "g",
         "e", "a", "b", "l", "e", " ", "p", "r", "o", "j", "e", "c", "t", "s",
         " ", "b", "e", "f", "o", "r", "e", " ", "s", "c", "a", "l", "i", "n",
         "g", " ", "u", "p", ".", "\n", "3", ".", " ", "*", "*", "C", "o", "n",
         "t", "i", "n", "u", "o", "u", "s", " ", "M", "o", "n", "i", "t", "o",
         "r", "i", "n", "g", "*", "*", ":", " ", "I", "m", "p", "l", "e", "m",
         "e", "n", "t", " ", "m", "o", "n", "i", "t", "o", "r", "i", "n", "g",
         " ", "a", "n", "d", " ", "a", "l", "e", "r", "t", "i", "n", "g", " ",
         "f", "o", "r", " ", "p", "r", "o", "d", "u", "c", "t", "i", "o", "n",
         " ", "s", "y", "s", "t", "e", "m", "s", ".", "\n", "4", ".", " ", "*",
         "*", "R", "e", "g", "u", "l", "a", "r", " ", "U", "p", "d", "a", "t",
         "e", "s", "*", "*", ":", " ", "S", "t", "a", "y", " ", "c", "u", "r",
         "r", "e", "n", "t", " ", "w", "i", "t", "h", " ">>,
       \* " updates and security patches.\n\n"
       <<" ", "u", "p", "d", "a", "t", "e", "s", " ", "a", "n", "d", " ", "s",
         "e", "c", "u", "r", "i", "t", "y", " ", "p", "a", "t", "c", "h", "e",
         "s", ".", "\n", "\n">> >>

\* generate best practices section: the loops over the fixed lists are unrolled
_generate_best_practices_section(topic, title, description, word_count, audience, keywords) ==
    ConcatAll(<<
        BestPracticesText[1], title, BestPracticesText[2], topic, BestPracticesText[3],
        topic, BestPracticesText[4], topic, BestPracticesText[5], topic,
        BestPracticesText[6], topic, BestPracticesText[7], topic, BestPracticesText[8],
        topic, BestPracticesText[9], topic, BestPracticesText[10], topic,
        BestPracticesText[11], topic, BestPracticesText[12], topic, BestPracticesText[13],
        topic, BestPracticesText[14], topic, BestPracticesText[15], topic,
        BestPracticesText[16], topic, BestPracticesText[17], topic, BestPracticesText[18] >>)

\* the text of the examples section, cut at its parameters
ExamplesText ==
    << \* "## "
       <<"#", "#", " ">>,
       \* "\n\nReal-world examples demonstrate how "
       <<"\n", "\n", "R", "e", "a", "l", "-", "w", "o", "r", "l", "d", " ", "e",
         "x", "a", "m", "p", "l", "e", "s", " ", "d", "e", "m", "o", "n", "s",
         "t", "r", "a", "t", "e", " ", "h", "o", "w", " ">>,
       \* " can be applied in practical scenarios. These examples showcase different
       \*  use cases and implementation approaches.\n\n### E-commerce Platform Integ
       \* ration\n\nThis example shows how "
       <<" ", "c", "a", "n", " ", "b", "e", " ", "a", "p", "p", "l", "i", "e",
         "d", " ", "i", "n", " ", "p", "r", "a", "c", "t", "i", "c", "a", "l",
         " ", "s", "c", "e", "n", "a", "r", "i", "o", "s", ".", " ", "T", "h",
         "e", "s", "e", " ", "e", "x", "a", "m", "p", "l", "e", "s", " ", "s",
         "h", "o", "w", "c", "a", "s", "e", " ", "d", "i", "f", "f", "e", "r",
         "e", "n", "t", " ", "u", "s", "e", " ", "c", "a", "s", "e", "s", " ",
         "a", "n", "d", " ", "i", "m", "p", "l", "e", "m", "e", "n", "t", "a",
         "t", "i", "o", "n", " ", "a", "p", "p", "r", "o", "a", "c", "h", "e",
         "s", ".", "\n", "\n", "#", "#", "#", " ", "E", "-", "c", "o", "m", "m",
         "e", "r", "c", "e", " ", "P", "l", "a", "t", "f", "o", "r", "m", " ",
         "I", "n", "t", "e", "g", "r", "a", "t", "i", "o", "n", "\n", "\n", "T",
         "h", "i", "s", " ", "e", "x", "a", "m", "p", "l", "e", " ", "s", "h",
         "o", "w", "s", " ", "h", "o", "w", " ">>,
       \* " can be integrated into an e-commerce platform to improve user experience
       \*  and system performance.\n\n**Use Case**: Online retail with high traffic 
       \* volumes\n\n'''python\n# E-commerce Platform Integration implementation\n# 
       \* This example demonstrates "
       <<" ", "c", "a", "n", " ", "b", "e", " ", "i", "n", "t", "e", "g", "r",
         "a", "t", "e", "d", " ", "i", "n", "t", "o", " ", "a", "n", " ", "e",
         "-", "c", "o", "m", "m", "e", "r", "c", "e", " ", "p", "l", "a", "t",
         "f", "o", "r", "m", " ", "t", "o", " ", "i", "m", "p", "r", "o", "v",
         "e", " ", "u", "s", "e", "r", " ", "e", "x", "p", "e", "r", "i", "e",
         "n", "c", "e", " ", "a", "n", "d", " ", "s", "y", "s", "t", "e", "m",
         " ", "p", "e", "r", "f", "o", "r", "m", "a", "n", "c", "e", ".", "\n",
         "\n", "*", "*", "U", "s", "e", " ", "C", "a", "s", "e", "*", "*", ":",
         " ", "O", "n", "l", "i", "n", "e", " ", "r", "e", "t", "a", "i", "l",
         " ", "w", "i", "t", "h", " ", "h", "i", "g", "h", " ", "t", "r", "a",
         "f", "f", "i", "c", " ", "v", "o", "l", "u", "m", "e", "s", "\n", "\n",
         BQ, BQ, BQ, "p", "y", "t", "h", "o", "n", "\n", "#", " ", "E", "-", "c",
         "o", "m", "m", "e", "r", "c", "e", " ", "P", "l", "a", "t", "f", "o",
         "r", "m", " ", "I", "n", "t", "e", "g", "r", "a", "t", "i", "o", "n",
         " ", "i", "m", "p", "l", "e", "m", "e", "n", "t", "a", "t", "i", "o",
         "n", "\n", "#", " ", "T", "h", "i", "s", " ", "e", "x", "a", "m", "p",
         "l", "e", " ", "d", "e", "m", "o", "n", "s", "t", "r", "a", "t", "e",
         "s", " ">>,
       \* " in online retail with high traffic volumes\n\nclass ExampleImplementatio
       \* n:\n    def __init__(self):\n        # Initialize "
       <<" ", "i", "n", " ", "o", "n", "l", "i", "n", "e", " ", "r", "e", "t",
         "a", "i", "l", " ", "w", "i", "t", "h", " ", "h", "i", "g", "h", " ",
         "t", "r", "a", "f", "f", "i", "c", " ", "v", "o", "l", "u", "m", "e",
         "s", "\n", "\n", "c", "l", "a", "s", "s", " ", "E", "x", "a", "m", "p",
         "l", "e", "I", "m", "p", "l", "e", "m", "e", "n", "t", "a", "t", "i",
         "o", "n", ":", "\n", " ", " ", " ", " ", "d", "e", "f", " ", "_", "_",
         "i", "n", "i", "t", "_", "_", "(", "s", "e", "l", "f", ")", ":", "\n",
         " ", " ", " ", " ", " ", " ", " ", " ", "#", " ", "I", "n", "i", "t",
         "i", "a", "l", "i", "z", "e", " ">>,
       \* " components\n        pass\n\n    def process(self, data):\n        # Proc
       \* ess data using "
       <<" ", "c", "o", "m", "p", "o", "n", "e", "n", "t", "s", "\n", " ", " ",
         " ", " ", " ", " ", " ", " ", "p", "a", "s", "s", "\n", "\n", " ", " ",
         " ", " ", "d", "e", "f", " ", "p", "r", "o", "c", "e", "s", "s", "(",
         "s", "e", "l", "f", ",", " ", "d", "a", "t", "a", ")", ":", "\n", " ",
         " ", " ", " ", " ", " ", " ", " ", "#", " ", "P", "r", "o", "c", "e",
         "s", "s", " ", "d", "a", "t", "a", " ", "u", "s", "i", "n", "g", " ">>,
       \* "\n        return processed_data\n'''\n\n**Key Takeaways**:\n- Demonstrate
       \* s practical "
       <<"\n", " ", " ", " ", " ", " ", " ", " ", " ", "r", "e", "t", "u", "r",
         "n", " ", "p", "r", "o", "c", "e", "s", "s", "e", "d", "_", "d", "a",
         "t", "a", "\n", BQ, BQ, BQ, "\n", "\n", "*", "*", "K", "e", "y", " ",
         "T", "a", "k", "e", "a", "w", "a", "y", "s", "*", "*", ":", "\n", "-",
         " ", "D", "e", "m", "o", "n", "s", "t", "r", "a", "t", "e", "s", " ",
         "p", "r", "a", "c", "t", "i", "c", "a", "l", " ">>,
       \* " implementation\n- Shows integration with existing systems\n- Highlights 
       \* performance considerations\n\n### Data Processing Pipeline\n\nLearn how "
       <<" ", "i", "m", "p", "l", "e", "m", "e", "n", "t", "a", "t", "i", "o",
         "n", "\n", "-", " ", "S", "h", "o", "w", "s", " ", "i", "n", "t", "e",
         "g", "r", "a", "t", "i", "o", "n", " ", "w", "i", "t", "h", " ", "e",
         "x", "i", "s", "t", "i", "n", "g", " ", "s", "y", "s", "t", "e", "m",
         "s", "\n", "-", " ", "H", "i", "g", "h", "l", "i", "g", "h", "t", "s",
         " ", "p", "e", "r", "f", "o", "r", "m", "a", "n", "c", "e", " ", "c",
         "o", "n", "s", "i", "d", "e", "r", "a", "t", "i", "o", "n", "s", "\n",
         "\n", "#", "#", "#", " ", "D", "a", "t", "a", " ", "P", "r", "o", "c",
         "e", "s", "s", "i", "n", "g", " ", "P", "i", "p", "e", "l", "i", "n",
         "e", "\n", "\n", "L", "e", "a", "r", "n", " ", "h", "o", "w", " ">>,
       \* " can be used to build efficient data processing pipelines for analytics a
       \* nd reporting.\n\n**Use Case**: Big data analytics and business intelligenc
       \* e\n\n'''python\n# Data Processing Pipeline implementation\n# This example 
       \* demonstrates "
       <<" ", "c", "a", "n", " ", "b", "e", " ", "u", "s", "e", "d", " ", "t",
         "o", " ", "b", "u", "i", "l", "d", " ", "e", "f", "f", "i", "c", "i",
         "e", "n", "t", " ", "d", "a", "t", "a", " ", "p", "r", "o", "c", "e",
         "s", "s", "i", "n", "g", " ", "p", "i", "p", "e", "l", "i", "n", "e",
         "s", " ", "f", "o", "r", " ", "a", "n", "a", "l", "y", "t", "i", "c",
         "s", " ", "a", "n", "d", " ", "r", "e", "p", "o", "r", "t", "i", "n",
         "g", ".", "\n", "\n", "*", "*", "U", "s", "e", " ", "C", "a", "s", "e",
         "*", "*", ":", " ", "B", "i", "g", " ", "d", "a", "t", "a", " ", "a",
         "n", "a", "l", "y", "t", "i", "c", "s", " ", "a", "n", "d", " ", "b",
         "u", "s", "i", "n", "e", "s", "s", " ", "i", "n", "t", "e", "l", "l",
         "i", "g", "e", "n", "c", "e", "\n", "\n", BQ, BQ, BQ, "p", "y", "t",
         "h", "o", "n", "\n", "#", " ", "D", "a", "t", "a", " ", "P", "r", "o",
         "c", "e", "s", "s", "i", "n", "g", " ", "P", "i", "p", "e", "l", "i",
         "n", "e", " ", "i", "m", "p", "l", "e", "m", "e", "n", "t", "a", "t",
         "i", "o", "n", "\n", "#", " ", "T", "h", "i", "s", " ", "e", "x", "a",
         "m", "p", "l", "e", " ", "d", "e", "m", "o", "n", "s", "t", "r", "a",
         "t", "e", "s", " ">>,
       \* " in big data analytics and business intelligence\n\nclass ExampleImplemen
       \* tation:\n    def __init__(self):\n        # Initialize "
       <<" ", "i", "n", " ", "b", "i", "g", " ", "d", "a", "t", "a", " ", "a",
         "n", "a", "l", "y", "t", "i", "c", "s", " ", "a", "n", "d", " ", "b",
         "u", "s", "i", "n", "e", "s", "s", " ", "i", "n", "t", "e", "l", "l",
         "i", "g", "e", "n", "c", "e", "\n", "\n", "c", "l", "a", "s", "s", " ",
         "E", "x", "a", "m", "p", "l", "e", "I", "m", "p", "l", "e", "m", "e",
         "n", "t", "a", "t", "i", "o", "n", ":", "\n", " ", " ", " ", " ", "d",
         "e", "f", " ", "_", "_", "i", "n", "i", "t", "_", "_", "(", "s", "e",
         "l", "f", ")", ":", "\n", " ", " ", " ", " ", " ", " ", " ", " ", "#",
         " ", "I", "n", "i", "t", "i", "a", "l", "i", "z", "e", " ">>,
       \* " components\n        pass\n\n    def process(self, data):\n        # Proc
       \* ess data using "
       <<" ", "c", "o", "m", "p", "o", "n", "e", "n", "t", "s", "\n", " ", " ",
         " ", " ", " ", " ", " ", " ", "p", "a", "s", "s", "\n", "\n", " ", " ",
         " ", " ", "d", "e", "f", " ", "p", "r", "o", "c", "e", "s", "s", "(",
         "s", "e", "l", "f", ",", " ", "d", "a", "t", "a", ")", ":", "\n", " ",
         " ", " ", " ", " ", " ", " ", " ", "#", " ", "P", "r", "o", "c", "e",
         "s", "s", " ", "d", "a", "t", "a", " ", "u", "s", "i", "n", "g", " ">>,
       \* "\n        return processed_data\n'''\n\n**Key Takeaways**:\n- Demonstrate
       \* s practical "
       <<"\n", " ", " ", " ", " ", " ", " ", " ", " ", "r", "e", "t", "u", "r",
         "n", " ", "p", "r", "o", "c", "e", "s", "s", "e", "d", "_", "d", "a",
         "t", "a", "\n", BQ, BQ, BQ, "\n", "\n", "*", "*", "K", "e", "y", " ",
         "T", "a", "k", "e", "a", "w", "a", "y", "s", "*", "*", ":", "\n", "-",
         " ", "D", "e", "m", "o", "n", "s", "t", "r", "a", "t", "e", "s", " ",
         "p", "r", "a", "c", "t", "i", "c", "a", "l", " ">>,
       \* " implementation\n- Shows integration with existing systems\n- Highlights 
       \* performance considerations\n\n### Mobile Application Backend\n\nDiscover h
       \* ow "
       <<" ", "i", "m", "p", "l", "e", "m", "e", "n", "t", "a", "t", "i", "o",
         "n", "\n", "-", " ", "S", "h", "o", "w", "s", " ", "i", "n", "t", "e",
         "g", "r", "a", "t", "i", "o", "n", " ", "w", "i", "t", "h", " ", "e",
         "x", "i", "s", "t", "i", "n", "g", " ", "s", "y", "s", "t", "e", "m",
         "s", "\n", "-", " ", "H", "i", "g", "h", "l", "i", "g", "h", "t", "s",
         " ", "p", "e", "r", "f", "o", "r", "m", "a", "n", "c", "e", " ", "c",
         "o", "n", "s", "i", "d", "e", "r", "a", "t", "i", "o", "n", "s", "\n",
         "\n", "#", "#", "#", " ", "M", "o", "b", "i", "l", "e", " ", "A", "p",
         "p", "l", "i", "c", "a", "t", "i", "o", "n", " ", "B", "a", "c", "k",
         "e", "n", "d", "\n", "\n", "D", "i", "s", "c", "o", "v", "e", "r", " ",
         "h", "o", "w", " ">>,
       \* " powers mobile application backends, providing scalable and responsive se
       \* rvices.\n\n**Use Case**: Mobile app development and API services\n\n'''pyt
       \* hon\n# Mobile Application Backend implementation\n# This example demonstra
       \* tes "
       <<" ", "p", "o", "w", "e", "r", "s", " ", "m", "o", "b", "i", "l", "e",
         " ", "a", "p", "p", "l", "i", "c", "a", "t", "i", "o", "n", " ", "b",
         "a", "c", "k", "e", "n", "d", "s", ",", " ", "p", "r", "o", "v", "i",
         "d", "i", "n", "g", " ", "s", "c", "a", "l", "a", "b", "l", "e", " ",
         "a", "n", "d", " ", "r", "e", "s", "p", "o", "n", "s", "i", "v", "e",
         " ", "s", "e", "r", "v", "i", "c", "e", "s", ".", "\n", "\n", "*", "*",
         "U", "s", "e", " ", "C", "a", "s", "e", "*", "*", ":", " ", "M", "o",
         "b", "i", "l", "e", " ", "a", "p", "p", " ", "d", "e", "v", "e", "l",
         "o", "p", "m", "e", "n", "t", " ", "a", "n", "d", " ", "A", "P", "I",
         " ", "s", "e", "r", "v", "i", "c", "e", "s", "\n", "\n", BQ, BQ, BQ,
         "p", "y", "t", "h", "o", "n", "\n", "#", " ", "M", "o", "b", "i", "l",
         "e", " ", "A", "p", "p", "l", "i", "c", "a", "t", "i", "o", "n", " ",
         "B", "a", "c", "k", "e", "n", "d", " ", "i", "m", "p", "l", "e", "m",
         "e", "n", "t", "a", "t", "i", "o", "n", "\n", "#", " ", "T", "h", "i",
         "s", " ", "e", "x", "a", "m", "p", "l", "e", " ", "d", "e", "m", "o",
         "n", "s", "t", "r", "a", "t", "e", "s", " ">>,
       \* " in mobile app development and api services\n\nclass ExampleImplementatio
       \* n:\n    def __init__(self):\n        # Initialize "
       <<" ", "i", "n", " ", "m", "o", "b", "i", "l", "e", " ", "a", "p", "p",
         " ", "d", "e", "v", "e", "l", "o", "p", "m", "e", "n", "t", " ", "a",
         "n", "d", " ", "a", "p", "i", " ", "s", "e", "r", "v", "i", "c", "e",
         "s", "\n", "\n", "c", "l", "a", "s", "s", " ", "E", "x", "a", "m", "p",
         "l", "e", "I", "m", "p", "l", "e", "m", "e", "n", "t", "a", "t", "i",
         "o", "n", ":", "\n", " ", " ", " ", " ", "d", "e", "f", " ", "_", "_",
         "i", "n", "i", "t", "_", "_", "(", "s", "e", "l", "f", ")", ":", "\n",
         " ", " ", " ", " ", " ", " ", " ", " ", "#", " ", "I", "n", "i", "t",
         "i", "a", "l", "i", "z", "e", " ">>,
       \* " components\n        pass\n\n    def process(self, data):\n        # Proc
       \* ess data using "
       <<" ", "c", "o", "m", "p", "o", "n", "e", "n", "t", "s", "\n", " ", " ",
         " ", " ", " ", " ", " ", " ", "p", "a", "s", "s", "\n", "\n", " ", " ",
         " ", " ", "d", "e", "f", " ", "p", "r", "o", "c", "e", "s", "s", "(",
         "s", "e", "l", "f", ",", " ", "d", "a", "t", "a", ")", ":", "\n", " ",
         " ", " ", " ", " ", " ", " ", " ", "#", " ", "P", "r", "o", "c", "e",
         "s", "s", " ", "d", "a", "t", "a", " ", "u", "s", "i", "n", "g", " ">>,
       \* "\n        return processed_data\n'''\n\n**Key Takeaways**:\n- Demonstrate
       \* s practical "
       <<"\n", " ", " ", " ", " ", " ", " ", " ", " ", "r", "e", "t", "u", "r",
         "n", " ", "p", "r", "o", "c", "e", "s", "s", "e", "d", "_", "d", "a",
         "t", "a", "\n", BQ, BQ, BQ, "\n", "\n", "*", "*", "K", "e", "y", " ",
         "T", "a", "k", "e", "a", "w", "a", "y", "s", "*", "*", ":", "\n", "-",
         " ", "D", "e", "m", "o", "n", "s", "t", "r", "a", "t", "e", "s", " ",
         "p", "r", "a", "c", "t", "i", "c", "a", "l", " ">>,
       \* " implementation\n- Shows integration with existing systems\n- Highlights 
       \* performance considerations\n\n"
       <<" ", "i", "m", "p", "l", "e", "m", "e", "n", "t", "a", "t", "i", "o",
         "n", "\n", "-", " ", "S", "h", "o", "w", "s", " ", "i", "n", "t", "e",
         "g", "r", "a", "t", "i", "o", "n", " ", "w", "i", "t", "h", " ", "e",
         "x", "i", "s", "t", "i", "n", "g", " ", "s", "y", "s", "t", "e", "m",
         "s", "\n", "-", " ", "H", "i", "g", "h", "l", "i", "g", "h", "t", "s",
         " ", "p", "e", "r", "f", "o", "r", "m", "a", "n", "c", "e", " ", "c",
         "o", "n", "s", "i", "d", "e", "r", "a", "t", "i", "o", "n", "s", "\n",
         "\n">> >>

\* generate examples section: the loops over the fixed lists are unrolled
_generate_examples_section(topic, title, description, word_count, audience, keywords) ==
    ConcatAll(<<
        ExamplesText[1], title, ExamplesText[2], topic, ExamplesText[3], topic, ExamplesText[4],
        topic, ExamplesText[5], topic, ExamplesText[6], topic, ExamplesText[7], topic,
        ExamplesText[8], topic, ExamplesText[9], topic, ExamplesText[10], topic, ExamplesText[11],
        topic, ExamplesText[12], topic, ExamplesText[13], topic, ExamplesText[14], topic,
        ExamplesText[15], topic, ExamplesText[16], topic, ExamplesText[17], topic,
        ExamplesText[18] >>)

\* the text of the advanced section, cut at its parameters
AdvancedText ==
    << \* "## "
       <<"#", "#", " ">>,
       \* "\n\nAdvanced "
       <<"\n", "\n", "A", "d", "v", "a", "n", "c", "e", "d", " ">>,
       \* " techniques enable sophisticated implementations that can handle complex 
       \* requirements and scale effectively. These techniques are particularly valu
       \* able for experienced developers working on demanding projects.\n\n### Cust
       \* om Extensions and Plugins\n\nLearn how to extend "
       <<" ", "t", "e", "c", "h", "n", "i", "q", "u", "e", "s", " ", "e", "n",
         "a", "b", "l", "e", " ", "s", "o", "p", "h", "i", "s", "t", "i", "c",
         "a", "t", "e", "d", " ", "i", "m", "p", "l", "e", "m", "e", "n", "t",
         "a", "t", "i", "o", "n", "s", " ", "t", "h", "a", "t", " ", "c", "a",
         "n", " ", "h", "a", "n", "d", "l", "e", " ", "c", "o", "m", "p", "l",
         "e", "x", " ", "r", "e", "q", "u", "i", "r", "e", "m", "e", "n", "t",
         "s", " ", "a", "n", "d", " ", "s", "c", "a", "l", "e", " ", "e", "f",
         "f", "e", "c", "t", "i", "v", "e", "l", "y", ".", " ", "T", "h", "e",
         "s", "e", " ", "t", "e", "c", "h", "n", "i", "q", "u", "e", "s", " ",
         "a", "r", "e", " ", "p", "a", "r", "t", "i", "c", "u", "l", "a", "r",
         "l", "y", " ", "v", "a", "l", "u", "a", "b", "l", "e", " ", "f", "o",
         "r", " ", "e", "x", "p", "e", "r", "i", "e", "n", "c", "e", "d", " ",
         "d", "e", "v", "e", "l", "o", "p", "e", "r", "s", " ", "w", "o", "r",
         "k", "i", "n", "g", " ", "o", "n", " ", "d", "e", "m", "a", "n", "d",
         "i", "n", "g", " ", "p", "r", "o", "j", "e", "c", "t", "s", ".", "\n",
         "\n", "#", "#", "#", " ", "C", "u", "s", "t", "o", "m", " ", "E", "x",
         "t", "e", "n", "s", "i", "o", "n", "s", " ", "a", "n", "d", " ", "P",
         "l", "u", "g", "i", "n", "s", "\n", "\n", "L", "e", "a", "r", "n", " ",
         "h", "o", "w", " ", "t", "o", " ", "e", "x", "t", "e", "n", "d", " ">>,
       \* " functionality through custom plugins and extensions.\n\n**Technical Impl
       \* ementation**:\n\n'''python\n# Advanced "
       <<" ", "f", "u", "n", "c", "t", "i", "o", "n", "a", "l", "i", "t", "y",
         " ", "t", "h", "r", "o", "u", "g", "h", " ", "c", "u", "s", "t", "o",
         "m", " ", "p", "l", "u", "g", "i", "n", "s", " ", "a", "n", "d", " ",
         "e", "x", "t", "e", "n", "s", "i", "o", "n", "s", ".", "\n", "\n", "*",
         "*", "T", "e", "c", "h", "n", "i", "c", "a", "l", " ", "I", "m", "p",
         "l", "e", "m", "e", "n", "t", "a", "t", "i", "o", "n", "*", "*", ":",
         "\n", "\n", BQ, BQ, BQ, "p", "y", "t", "h", "o", "n", "\n", "#", " ",
         "A", "d", "v", "a", "n", "c", "e", "d", " ">>,
       \* " implementation\n# This demonstrates sophisticated techniques\n\nfrom adv
       \* anced_patterns import OptimizedProcessor\n\nclass AdvancedImplementation(O
       \* ptimizedProcessor):\n    def __init__(self, config):\n        super().__in
       \* it__(config)\n        self.setup_advanced_features()\n\n    def setup_adva
       \* nced_features(self):\n        # Configure advanced features\n        pass\
       \* n'''\n\n### Performance Optimization Strategies\n\nAdvanced techniques for
       \*  optimizing "
       <<" ", "i", "m", "p", "l", "e", "m", "e", "n", "t", "a", "t", "i", "o",
         "n", "\n", "#", " ", "T", "h", "i", "s", " ", "d", "e", "m", "o", "n",
         "s", "t", "r", "a", "t", "e", "s", " ", "s", "o", "p", "h", "i", "s",
         "t", "i", "c", "a", "t", "e", "d", " ", "t", "e", "c", "h", "n", "i",
         "q", "u", "e", "s", "\n", "\n", "f", "r", "o", "m", " ", "a", "d", "v",
         "a", "n", "c", "e", "d", "_", "p", "a", "t", "t", "e", "r", "n", "s",
         " ", "i", "m", "p", "o", "r", "t", " ", "O", "p", "t", "i", "m", "i",
         "z", "e", "d", "P", "r", "o", "c", "e", "s", "s", "o", "r", "\n", "\n",
         "c", "l", "a", "s", "s", " ", "A", "d", "v", "a", "n", "c", "e", "d",
         "I", "m", "p", "l", "e", "m", "e", "n", "t", "a", "t", "i", "o", "n",
         "(", "O", "p", "t", "i", "m", "i", "z", "e", "d", "P", "r", "o", "c",
         "e", "s", "s", "o", "r", ")", ":", "\n", " ", " ", " ", " ", "d", "e",
         "f", " ", "_", "_", "i", "n", "i", "t", "_", "_", "(", "s", "e", "l",
         "f", ",", " ", "c", "o", "n", "f", "i", "g", ")", ":", "\n", " ", " ",
         " ", " ", " ", " ", " ", " ", "s", "u", "p", "e", "r", "(", ")", ".",
         "_", "_", "i", "n", "i", "t", "_", "_", "(", "c", "o", "n", "f", "i",
         "g", ")", "\n", " ", " ", " ", " ", " ", " ", " ", " ", "s", "e", "l",
         "f", ".", "s", "e", "t", "u", "p", "_", "a", "d", "v", "a", "n", "c",
         "e", "d", "_", "f", "e", "a", "t", "u", "r", "e", "s", "(", ")", "\n",
         "\n", " ", " ", " ", " ", "d", "e", "f", " ", "s", "e", "t", "u", "p",
         "_", "a", "d", "v", "a", "n", "c", "e", "d", "_", "f", "e", "a", "t",
         "u", "r", "e", "s", "(", "s", "e", "l", "f", ")", ":", "\n", " ", " ",
         " ", " ", " ", " ", " ", " ", "#", " ", "C", "o", "n", "f", "i", "g",
         "u", "r", "e", " ", "a", "d", "v", "a", "n", "c", "e", "d", " ", "f",
         "e", "a", "t", "u", "r", "e", "s", "\n", " ", " ", " ", " ", " ", " ",
         " ", " ", "p", "a", "s", "s", "\n", BQ, BQ, BQ, "\n", "\n", "#", "#",
         "#", " ", "P", "e", "r", "f", "o", "r", "m", "a", "n", "c", "e", " ",
         "O", "p", "t", "i", "m", "i", "z", "a", "t", "i", "o", "n", " ", "S",
         "t", "r", "a", "t", "e", "g", "i", "e", "s", "\n", "\n", "A", "d", "v",
         "a", "n", "c", "e", "d", " ", "t", "e", "c", "h", "n", "i", "q", "u",
         "e", "s", " ", "f", "o", "r", " ", "o", "p", "t", "i", "m", "i", "z",
         "i", "n", "g", " ">>,
       \* " performance in high-load scenarios.\n\n**Technical Implementation**:\n\n
       \* '''python\n# Advanced "
       <<" ", "p", "e", "r", "f", "o", "r", "m", "a", "n", "c", "e", " ", "i",
         "n", " ", "h", "i", "g", "h", "-", "l", "o", "a", "d", " ", "s", "c",
         "e", "n", "a", "r", "i", "o", "s", ".", "\n", "\n", "*", "*", "T", "e",
         "c", "h", "n", "i", "c", "a", "l", " ", "I", "m", "p", "l", "e", "m",
         "e", "n", "t", "a", "t", "i", "o", "n", "*", "*", ":", "\n", "\n", BQ,
         BQ, BQ, "p", "y", "t", "h", "o", "n", "\n", "#", " ", "A", "d", "v",
         "a", "n", "c", "e", "d", " ">>,
       \* " implementation\n# This demonstrates sophisticated techniques\n\nfrom adv
       \* anced_patterns import OptimizedProcessor\n\nclass AdvancedImplementation(O
       \* ptimizedProcessor):\n    def __init__(self, config):\n        super().__in
       \* it__(config)\n        self.setup_advanced_features()\n\n    def setup_adva
       \* nced_features(self):\n        # Configure advanced features\n        pass\
       \* n'''\n\n### Integration Patterns\n\nSophisticated patterns for integrating
       \*  "
       <<" ", "i", "m", "p", "l", "e", "m", "e", "n", "t", "a", "t", "i", "o",
         "n", "\n", "#", " ", "T", "h", "i", "s", " ", "d", "e", "m", "o", "n",
         "s", "t", "r", "a", "t", "e", "s", " ", "s", "o", "p", "h", "i", "s",
         "t", "i", "c", "a", "t", "e", "d", " ", "t", "e", "c", "h", "n", "i",
         "q", "u", "e", "s", "\n", "\n", "f", "r", "o", "m", " ", "a", "d", "v",
         "a", "n", "c", "e", "d", "_", "p", "a", "t", "t", "e", "r", "n", "s",
         " ", "i", "m", "p", "o", "r", "t", " ", "O", "p", "t", "i", "m", "i",
         "z", "e", "d", "P", "r", "o", "c", "e", "s", "s", "o", "r", "\n", "\n",
         "c", "l", "a", "s", "s", " ", "A", "d", "v", "a", "n", "c", "e", "d",
         "I", "m", "p", "l", "e", "m", "e", "n", "t", "a", "t", "i", "o", "n",
         "(", "O", "p", "t", "i", "m", "i", "z", "e", "d", "P", "r", "o", "c",
         "e", "s", "s", "o", "r", ")", ":", "\n", " ", " ", " ", " ", "d", "e",
         "f", " ", "_", "_", "i", "n", "i", "t", "_", "_", "(", "s", "e", "l",
         "f", ",", " ", "c", "o", "n", "f", "i", "g", ")", ":", "\n", " ", " ",
         " ", " ", " ", " ", " ", " ", "s", "u", "p", "e", "r", "(", ")", ".",
         "_", "_", "i", "n", "i", "t", "_", "_", "(", "c", "o", "n", "f", "i",
         "g", ")", "\n", " ", " ", " ", " ", " ", " ", " ", " ", "s", "e", "l",
         "f", ".", "s", "e", "t", "u", "p", "_", "a", "d", "v", "a", "n", "c",
         "e", "d", "_", "f", "e", "a", "t", "u", "r", "e", "s", "(", ")", "\n",
         "\n", " ", " ", " ", " ", "d", "e", "f", " ", "s", "e", "t", "u", "p",
         "_", "a", "d", "v", "a", "n", "c", "e", "d", "_", "f", "e", "a", "t",
         "u", "r", "e", "s", "(", "s", "e", "l", "f", ")", ":", "\n", " ", " ",
         " ", " ", " ", " ", " ", " ", "#", " ", "C", "o", "n", "f", "i", "g",
         "u", "r", "e", " ", "a", "d", "v", "a", "n", "c", "e", "d", " ", "f",
         "e", "a", "t", "u", "r", "e", "s", "\n", " ", " ", " ", " ", " ", " ",
         " ", " ", "p", "a", "s", "s", "\n", BQ, BQ, BQ, "\n", "\n", "#", "#",
         "#", " ", "I", "n", "t", "e", "g", "r", "a", "t", "i", "o", "n", " ",
         "P", "a", "t", "t", "e", "r", "n", "s", "\n", "\n", "S", "o", "p", "h",
         "i", "s", "t", "i", "c", "a", "t", "e", "d", " ", "p", "a", "t", "t",
         "e", "r", "n", "s", " ", "f", "o", "r", " ", "i", "n", "t", "e", "g",
         "r", "a", "t", "i", "n", "g", " ">>,
       \* " with complex system architectures.\n\n**Technical Implementation**:\n\n'
       \* ''python\n# Advanced "
       <<" ", "w", "i", "t", "h", " ", "c", "o", "m", "p", "l", "e", "x", " ",
         "s", "y", "s", "t", "e", "m", " ", "a", "r", "c", "h", "i", "t", "e",
         "c", "t", "u", "r", "e", "s", ".", "\n", "\n", "*", "*", "T", "e", "c",
         "h", "n", "i", "c", "a", "l", " ", "I", "m", "p", "l", "e", "m", "e",
         "n", "t", "a", "t", "i", "o", "n", "*", "*", ":", "\n", "\n", BQ, BQ,
         BQ, "p", "y", "t", "h", "o", "n", "\n", "#", " ", "A", "d", "v", "a",
         "n", "c", "e", "d", " ">>,
       \* " implementation\n# This demonstrates sophisticated techniques\n\nfrom adv
       \* anced_patterns import OptimizedProcessor\n\nclass AdvancedImplementation(O
       \* ptimizedProcessor):\n    def __init__(self, config):\n        super().__in
       \* it__(config)\n        self.setup_advanced_features()\n\n    def setup_adva
       \* nced_features(self):\n        # Configure advanced features\n        pass\
       \* n'''\n\n### Considerations for Advanced Usage\n\nWhen implementing advance
       \* d "
       <<" ", "i", "m", "p", "l", "e", "m", "e", "n", "t", "a", "t", "i", "o",
         "n", "\n", "#", " ", "T", "h", "i", "s", " ", "d", "e", "m", "o", "n",
         "s", "t", "r", "a", "t", "e", "s", " ", "s", "o", "p", "h", "i", "s",
         "t", "i", "c", "a", "t", "e", "d", " ", "t", "e", "c", "h", "n", "i",
         "q", "u", "e", "s", "\n", "\n", "f", "r", "o", "m", " ", "a", "d", "v",
         "a", "n", "c", "e", "d", "_", "p", "a", "t", "t", "e", "r", "n", "s",
         " ", "i", "m", "p", "o", "r", "t", " ", "O", "p", "t", "i", "m", "i",
         "z", "e", "d", "P", "r", "o", "c", "e", "s", "s", "o", "r", "\n", "\n",
         "c", "l", "a", "s", "s", " ", "A", "d", "v", "a", "n", "c", "e", "d",
         "I", "m", "p", "l", "e", "m", "e", "n", "t", "a", "t", "i", "o", "n",
         "(", "O", "p", "t", "i", "m", "i", "z", "e", "d", "P", "r", "o", "c",
         "e", "s", "s", "o", "r", ")", ":", "\n", " ", " ", " ", " ", "d", "e",
         "f", " ", "_", "_", "i", "n", "i", "t", "_", "_", "(", "s", "e", "l",
         "f", ",", " ", "c", "o", "n", "f", "i", "g", ")", ":", "\n", " ", " ",
         " ", " ", " ", " ", " ", " ", "s", "u", "p", "e", "r", "(", ")", ".",
         "_", "_", "i", "n", "i", "t", "_", "_", "(", "c", "o", "n", "f", "i",
         "g", ")", "\n", " ", " ", " ", " ", " ", " ", " ", " ", "s", "e", "l",
         "f", ".", "s", "e", "t", "u", "p", "_", "a", "d", "v", "a", "n", "c",
         "e", "d", "_", "f", "e", "a", "t", "u", "r", "e", "s", "(", ")", "\n",
         "\n", " ", " ", " ", " ", "d", "e", "f", " ", "s", "e", "t", "u", "p",
         "_", "a", "d", "v", "a", "n", "c", "e", "d", "_", "f", "e", "a", "t",
         "u", "r", "e", "s", "(", "s", "e", "l", "f", ")", ":", "\n", " ", " ",
         " ", " ", " ", " ", " ", " ", "#", " ", "C", "o", "n", "f", "i", "g",
         "u", "r", "e", " ", "a", "d", "v", "a", "n", "c", "e", "d", " ", "f",
         "e", "a", "t", "u", "r", "e", "s", "\n", " ", " ", " ", " ", " ", " ",
         " ", " ", "p", "a", "s", "s", "\n", BQ, BQ, BQ, "\n", "\n", "#", "#",
         "#", " ", "C", "o", "n", "s", "i", "d", "e", "r", "a", "t", "i", "o",
         "n", "s", " ", "f", "o", "r", " ", "A", "d", "v", "a", "n", "c", "e",
         "d", " ", "U", "s", "a", "g", "e", "\n", "\n", "W", "h", "e", "n", " ",
         "i", "m", "p", "l", "e", "m", "e", "n", "t", "i", "n", "g", " ", "a",
         "d", "v", "a", "n", "c", "e", "d", " ">>,
       \* " techniques, consider the following:\n\n- **Complexity Management**: Bala
       \* nce advanced features with maintainability\n- **Performance Impact**: Moni
       \* tor the performance implications of advanced techniques\n- **Team Expertis
       \* e**: Ensure your team has the necessary skills for advanced implementation
       \* s\n- **Documentation**: Thoroughly document advanced implementations for f
       \* uture maintenance\n\n"
       <<" ", "t", "e", "c", "h", "n", "i", "q", "u", "e", "s", ",", " ", "c",
         "o", "n", "s", "i", "d", "e", "r", " ", "t", "h", "e", " ", "f", "o",
         "l", "l", "o", "w", "i", "n", "g", ":", "\n", "\n", "-", " ", "*", "*",
         "C", "o", "m", "p", "l", "e", "x", "i", "t", "y", " ", "M", "a", "n",
         "a", "g", "e", "m", "e", "n", "t", "*", "*", ":", " ", "B", "a", "l",
         "a", "n", "c", "e", " ", "a", "d", "v", "a", "n", "c", "e", "d", " ",
         "f", "e", "a", "t", "u", "r", "e", "s", " ", "w", "i", "t", "h", " ",
         "m", "a", "i", "n", "t", "a", "i", "n", "a", "b", "i", "l", "i", "t",
         "y", "\n", "-", " ", "*", "*", "P", "e", "r", "f", "o", "r", "m", "a",
         "n", "c", "e", " ", "I", "m", "p", "a", "c", "t", "*", "*", ":", " ",
         "M", "o", "n", "i", "t", "o", "r", " ", "t", "h", "e", " ", "p", "e",
         "r", "f", "o", "r", "m", "a", "n", "c", "e", " ", "i", "m", "p", "l",
         "i", "c", "a", "t", "i", "o", "n", "s", " ", "o", "f", " ", "a", "d",
         "v", "a", "n", "c", "e", "d", " ", "t", "e", "c", "h", "n", "i", "q",
         "u", "e", "s", "\n", "-", " ", "*", "*", "T", "e", "a", "m", " ", "E",
         "x", "p", "e", "r", "t", "i", "s", "e", "*", "*", ":", " ", "E", "n",
         "s", "u", "r", "e", " ", "y", "o", "u", "r", " ", "t", "e", "a", "m",
         " ", "h", "a", "s", " ", "t", "h", "e", " ", "n", "e", "c", "e", "s",
         "s", "a", "r", "y", " ", "s", "k", "i", "l", "l", "s", " ", "f", "o",
         "r", " ", "a", "d", "v", "a", "n", "c", "e", "d", " ", "i", "m", "p",
         "l", "e", "m", "e", "n", "t", "a", "t", "i", "o", "n", "s", "\n", "-",
         " ", "*", "*", "D", "o", "c", "u", "m", "e", "n", "t", "a", "t", "i",
         "o", "n", "*", "*", ":", " ", "T", "h", "o", "r", "o", "u", "g", "h",
         "l", "y", " ", "d", "o", "c", "u", "m", "e", "n", "t", " ", "a", "d",
         "v", "a", "n", "c", "e", "d", " ", "i", "m", "p", "l", "e", "m", "e",
         "n", "t", "a", "t", "i", "o", "n", "s", " ", "f", "o", "r", " ", "f",
         "u", "t", "u", "r", "e", " ", "m", "a", "i", "n", "t", "e", "n", "a",
         "n", "c", "e", "\n", "\n">> >>

\* generate advanced section: the loops over the fixed lists are unrolled
_generate_advanced_section(topic, title, description, word_count, audience, keywords) ==
    ConcatAll(<<
        AdvancedText[1], title, AdvancedText[2], topic, AdvancedText[3], topic, AdvancedText[4],
        topic, AdvancedText[5], topic, AdvancedText[6], topic, AdvancedText[7], topic,
        AdvancedText[8], topic, AdvancedText[9], topic, AdvancedText[10] >>)

\* the text of the performance section, cut at its parameters
PerformanceText ==
    << \* "## "
       <<"#", "#", " ">>,
       \* "\n\nPerformance optimization is crucial for "
       <<"\n", "\n", "P", "e", "r", "f", "o", "r", "m", "a", "n", "c", "e", " ",
         "o", "p", "t", "i", "m", "i", "z", "a", "t", "i", "o", "n", " ", "i",
         "s", " ", "c", "r", "u", "c", "i", "a", "l", " ", "f", "o", "r", " ">>,
       \* " implementations in production environments. This section covers key perf
       \* ormance considerations and optimization strategies.\n\n### Memory Manageme
       \* nt\n\nEfficient memory usage is essential for "
       <<" ", "i", "m", "p", "l", "e", "m", "e", "n", "t", "a", "t", "i", "o",
         "n", "s", " ", "i", "n", " ", "p", "r", "o", "d", "u", "c", "t", "i",
         "o", "n", " ", "e", "n", "v", "i", "r", "o", "n", "m", "e", "n", "t",
         "s", ".", " ", "T", "h", "i", "s", " ", "s", "e", "c", "t", "i", "o",
         "n", " ", "c", "o", "v", "e", "r", "s", " ", "k", "e", "y", " ", "p",
         "e", "r", "f", "o", "r", "m", "a", "n", "c", "e", " ", "c", "o", "n",
         "s", "i", "d", "e", "r", "a", "t", "i", "o", "n", "s", " ", "a", "n",
         "d", " ", "o", "p", "t", "i", "m", "i", "z", "a", "t", "i", "o", "n",
         " ", "s", "t", "r", "a", "t", "e", "g", "i", "e", "s", ".", "\n", "\n",
         "#", "#", "#", " ", "M", "e", "m", "o", "r", "y", " ", "M", "a", "n",
         "a", "g", "e", "m", "e", "n", "t", "\n", "\n", "E", "f", "f", "i", "c",
         "i", "e", "n", "t", " ", "m", "e", "m", "o", "r", "y", " ", "u", "s",
         "a", "g", "e", " ", "i", "s", " ", "e", "s", "s", "e", "n", "t", "i",
         "a", "l", " ", "f", "o", "r", " ">>,
       \* " performance, especially in resource-constrained environments.\n\n**Optim
       \* ization Techniques**:\n\n- **Object pooling and reuse**: Implement this te
       \* chnique to improve memory management\n- **Garbage collection optimization*
       \* *: Implement this technique to improve memory management\n- **Memory leak 
       \* prevention**: Implement this technique to improve memory management\n\n'''
       \* python\n# Memory Management optimization example\n# Demonstrates "
       <<" ", "p", "e", "r", "f", "o", "r", "m", "a", "n", "c", "e", ",", " ",
         "e", "s", "p", "e", "c", "i", "a", "l", "l", "y", " ", "i", "n", " ",
         "r", "e", "s", "o", "u", "r", "c", "e", "-", "c", "o", "n", "s", "t",
         "r", "a", "i", "n", "e", "d", " ", "e", "n", "v", "i", "r", "o", "n",
         "m", "e", "n", "t", "s", ".", "\n", "\n", "*", "*", "O", "p", "t", "i",
         "m", "i", "z", "a", "t", "i", "o", "n", " ", "T", "e", "c", "h", "n",
         "i", "q", "u", "e", "s", "*", "*", ":", "\n", "\n", "-", " ", "*", "*",
         "O", "b", "j", "e", "c", "t", " ", "p", "o", "o", "l", "i", "n", "g",
         " ", "a", "n", "d", " ", "r", "e", "u", "s", "e", "*", "*", ":", " ",
         "I", "m", "p", "l", "e", "m", "e", "n", "t", " ", "t", "h", "i", "s",
         " ", "t", "e", "c", "h", "n", "i", "q", "u", "e", " ", "t", "o", " ",
         "i", "m", "p", "r", "o", "v", "e", " ", "m", "e", "m", "o", "r", "y",
         " ", "m", "a", "n", "a", "g", "e", "m", "e", "n", "t", "\n", "-", " ",
         "*", "*", "G", "a", "r", "b", "a", "g", "e", " ", "c", "o", "l", "l",
         "e", "c", "t", "i", "o", "n", " ", "o", "p", "t", "i", "m", "i", "z",
         "a", "t", "i", "o", "n", "*", "*", ":", " ", "I", "m", "p", "l", "e",
         "m", "e", "n", "t", " ", "t", "h", "i", "s", " ", "t", "e", "c", "h",
         "n", "i", "q", "u", "e", " ", "t", "o", " ", "i", "m", "p", "r", "o",
         "v", "e", " ", "m", "e", "m", "o", "r", "y", " ", "m", "a", "n", "a",
         "g", "e", "m", "e", "n", "t", "\n", "-", " ", "*", "*", "M", "e", "m",
         "o", "r", "y", " ", "l", "e", "a", "k", " ", "p", "r", "e", "v", "e",
         "n", "t", "i", "o", "n", "*", "*", ":", " ", "I", "m", "p", "l", "e",
         "m", "e", "n", "t", " ", "t", "h", "i", "s", " ", "t", "e", "c", "h",
         "n", "i", "q", "u", "e", " ", "t", "o", " ", "i", "m", "p", "r", "o",
         "v", "e", " ", "m", "e", "m", "o", "r", "y", " ", "m", "a", "n", "a",
         "g", "e", "m", "e", "n", "t", "\n", "\n", BQ, BQ, BQ, "p", "y", "t",
         "h", "o", "n", "\n", "#", " ", "M", "e", "m", "o", "r", "y", " ", "M",
         "a", "n", "a", "g", "e", "m", "e", "n", "t", " ", "o", "p", "t", "i",
         "m", "i", "z", "a", "t", "i", "o", "n", " ", "e", "x", "a", "m", "p",
         "l", "e", "\n", "#", " ", "D", "e", "m", "o", "n", "s", "t", "r", "a",
         "t", "e", "s", " ">>,
       \* " performance optimization\n\nclass PerformanceOptimizer:\n    def __init_
       \* _(self):\n        # Initialize memory management optimization\n        pas
       \* s\n\n    def optimize(self):\n        # Implement memory management optimi
       \* zation\n        return optimized_result\n'''\n\n### CPU Optimization\n\nOp
       \* timizing CPU usage ensures "
       <<" ", "p", "e", "r", "f", "o", "r", "m", "a", "n", "c", "e", " ", "o",
         "p", "t", "i", "m", "i", "z", "a", "t", "i", "o", "n", "\n", "\n", "c",
         "l", "a", "s", "s", " ", "P", "e", "r", "f", "o", "r", "m", "a", "n",
         "c", "e", "O", "p", "t", "i", "m", "i", "z", "e", "r", ":", "\n", " ",
         " ", " ", " ", "d", "e", "f", " ", "_", "_", "i", "n", "i", "t", "_",
         "_", "(", "s", "e", "l", "f", ")", ":", "\n", " ", " ", " ", " ", " ",
         " ", " ", " ", "#", " ", "I", "n", "i", "t", "i", "a", "l", "i", "z",
         "e", " ", "m", "e", "m", "o", "r", "y", " ", "m", "a", "n", "a", "g",
         "e", "m", "e", "n", "t", " ", "o", "p", "t", "i", "m", "i", "z", "a",
         "t", "i", "o", "n", "\n", " ", " ", " ", " ", " ", " ", " ", " ", "p",
         "a", "s", "s", "\n", "\n", " ", " ", " ", " ", "d", "e", "f", " ", "o",
         "p", "t", "i", "m", "i", "z", "e", "(", "s", "e", "l", "f", ")", ":",
         "\n", " ", " ", " ", " ", " ", " ", " ", " ", "#", " ", "I", "m", "p",
         "l", "e", "m", "e", "n", "t", " ", "m", "e", "m", "o", "r", "y", " ",
         "m", "a", "n", "a", "g", "e", "m", "e", "n", "t", " ", "o", "p", "t",
         "i", "m", "i", "z", "a", "t", "i", "o", "n", "\n", " ", " ", " ", " ",
         " ", " ", " ", " ", "r", "e", "t", "u", "r", "n", " ", "o", "p", "t",
         "i", "m", "i", "z", "e", "d", "_", "r", "e", "s", "u", "l", "t", "\n",
         BQ, BQ, BQ, "\n", "\n", "#", "#", "#", " ", "C", "P", "U", " ", "O",
         "p", "t", "i", "m", "i", "z", "a", "t", "i", "o", "n", "\n", "\n", "O",
         "p", "t", "i", "m", "i", "z", "i", "n", "g", " ", "C", "P", "U", " ",
         "u", "s", "a", "g", "e", " ", "e", "n", "s", "u", "r", "e", "s", " ">>,
       \* " can handle high loads efficiently.\n\n**Optimization Techniques**:\n\n- 
       \* **Algorithm optimization**: Implement this technique to improve cpu optimi
       \* zation\n- **Parallel processing**: Implement this technique to improve cpu
       \*  optimization\n- **Caching strategies**: Implement this technique to impro
       \* ve cpu optimization\n\n'''python\n# CPU Optimization optimization example\
       \* n# Demonstrates "
       <<" ", "c", "a", "n", " ", "h", "a", "n", "d", "l", "e", " ", "h", "i",
         "g", "h", " ", "l", "o", "a", "d", "s", " ", "e", "f", "f", "i", "c",
         "i", "e", "n", "t", "l", "y", ".", "\n", "\n", "*", "*", "O", "p", "t",
         "i", "m", "i", "z", "a", "t", "i", "o", "n", " ", "T", "e", "c", "h",
         "n", "i", "q", "u", "e", "s", "*", "*", ":", "\n", "\n", "-", " ", "*",
         "*", "A", "l", "g", "o", "r", "i", "t", "h", "m", " ", "o", "p", "t",
         "i", "m", "i", "z", "a", "t", "i", "o", "n", "*", "*", ":", " ", "I",
         "m", "p", "l", "e", "m", "e", "n", "t", " ", "t", "h", "i", "s", " ",
         "t", "e", "c", "h", "n", "i", "q", "u", "e", " ", "t", "o", " ", "i",
         "m", "p", "r", "o", "v", "e", " ", "c", "p", "u", " ", "o", "p", "t",
         "i", "m", "i", "z", "a", "t", "i", "o", "n", "\n", "-", " ", "*", "*",
         "P", "a", "r", "a", "l", "l", "e", "l", " ", "p", "r", "o", "c", "e",
         "s", "s", "i", "n", "g", "*", "*", ":", " ", "I", "m", "p", "l", "e",
         "m", "e", "n", "t", " ", "t", "h", "i", "s", " ", "t", "e", "c", "h",
         "n", "i", "q", "u", "e", " ", "t", "o", " ", "i", "m", "p", "r", "o",
         "v", "e", " ", "c", "p", "u", " ", "o", "p", "t", "i", "m", "i", "z",
         "a", "t", "i", "o", "n", "\n", "-", " ", "*", "*", "C", "a", "c", "h",
         "i", "n", "g", " ", "s", "t", "r", "a", "t", "e", "g", "i", "e", "s",
         "*", "*", ":", " ", "I", "m", "p", "l", "e", "m", "e", "n", "t", " ",
         "t", "h", "i", "s", " ", "t", "e", "c", "h", "n", "i", "q", "u", "e",
         " ", "t", "o", " ", "i", "m", "p", "r", "o", "v", "e", " ", "c", "p",
         "u", " ", "o", "p", "t", "i", "m", "i", "z", "a", "t", "i", "o", "n",
         "\n", "\n", BQ, BQ, BQ, "p", "y", "t", "h", "o", "n", "\n", "#", " ",
         "C", "P", "U", " ", "O", "p", "t", "i", "m", "i", "z", "a", "t", "i",
         "o", "n", " ", "o", "p", "t", "i", "m", "i", "z", "a", "t", "i", "o",
         "n", " ", "e", "x", "a", "m", "p", "l", "e", "\n", "#", " ", "D", "e",
         "m", "o", "n", "s", "t", "r", "a", "t", "e", "s", " ">>,
       \* " performance optimization\n\nclass PerformanceOptimizer:\n    def __init_
       \* _(self):\n        # Initialize cpu optimization optimization\n        pass
       \* \n\n    def optimize(self):\n        # Implement cpu optimization optimiza
       \* tion\n        return optimized_result\n'''\n\n### I/O Performance\n\nInput
       \* /output operations often become bottlenecks in "
       <<" ", "p", "e", "r", "f", "o", "r", "m", "a", "n", "c", "e", " ", "o",
         "p", "t", "i", "m", "i", "z", "a", "t", "i", "o", "n", "\n", "\n", "c",
         "l", "a", "s", "s", " ", "P", "e", "r", "f", "o", "r", "m", "a", "n",
         "c", "e", "O", "p", "t", "i", "m", "i", "z", "e", "r", ":", "\n", " ",
         " ", " ", " ", "d", "e", "f", " ", "_", "_", "i", "n", "i", "t", "_",
         "_", "(", "s", "e", "l", "f", ")", ":", "\n", " ", " ", " ", " ", " ",
         " ", " ", " ", "#", " ", "I", "n", "i", "t", "i", "a", "l", "i", "z",
         "e", " ", "c", "p", "u", " ", "o", "p", "t", "i", "m", "i", "z", "a",
         "t", "i", "o", "n", " ", "o", "p", "t", "i", "m", "i", "z", "a", "t",
         "i", "o", "n", "\n", " ", " ", " ", " ", " ", " ", " ", " ", "p", "a",
         "s", "s", "\n", "\n", " ", " ", " ", " ", "d", "e", "f", " ", "o", "p",
         "t", "i", "m", "i", "z", "e", "(", "s", "e", "l", "f", ")", ":", "\n",
         " ", " ", " ", " ", " ", " ", " ", " ", "#", " ", "I", "m", "p", "l",
         "e", "m", "e", "n", "t", " ", "c", "p", "u", " ", "o", "p", "t", "i",
         "m", "i", "z", "a", "t", "i", "o", "n", " ", "o", "p", "t", "i", "m",
         "i", "z", "a", "t", "i", "o", "n", "\n", " ", " ", " ", " ", " ", " ",
         " ", " ", "r", "e", "t", "u", "r", "n", " ", "o", "p", "t", "i", "m",
         "i", "z", "e", "d", "_", "r", "e", "s", "u", "l", "t", "\n", BQ, BQ, BQ,
         "\n", "\n", "#", "#", "#", " ", "I", "/", "O", " ", "P", "e", "r", "f",
         "o", "r", "m", "a", "n", "c", "e", "\n", "\n", "I", "n", "p", "u", "t",
         "/", "o", "u", "t", "p", "u", "t", " ", "o", "p", "e", "r", "a", "t",
         "i", "o", "n", "s", " ", "o", "f", "t", "e", "n", " ", "b", "e", "c",
         "o", "m", "e", " ", "b", "o", "t", "t", "l", "e", "n", "e", "c", "k",
         "s", " ", "i", "n", " ">>,
       \* " implementations.\n\n**Optimization Techniques**:\n\n- **Asynchronous ope
       \* rations**: Implement this technique to improve i/o performance\n- **Connec
       \* tion pooling**: Implement this technique to improve i/o performance\n- **B
       \* atch processing**: Implement this technique to improve i/o performance\n\n
       \* '''python\n# I/O Performance optimization example\n# Demonstrates "
       <<" ", "i", "m", "p", "l", "e", "m", "e", "n", "t", "a", "t", "i", "o",
         "n", "s", ".", "\n", "\n", "*", "*", "O", "p", "t", "i", "m", "i", "z",
         "a", "t", "i", "o", "n", " ", "T", "e", "c", "h", "n", "i", "q", "u",
         "e", "s", "*", "*", ":", "\n", "\n", "-", " ", "*", "*", "A", "s", "y",
         "n", "c", "h", "r", "o", "n", "o", "u", "s", " ", "o", "p", "e", "r",
         "a", "t", "i", "o", "n", "s", "*", "*", ":", " ", "I", "m", "p", "l",
         "e", "m", "e", "n", "t", " ", "t", "h", "i", "s", " ", "t", "e", "c",
         "h", "n", "i", "q", "u", "e", " ", "t", "o", " ", "i", "m", "p", "r",
         "o", "v", "e", " ", "i", "/", "o", " ", "p", "e", "r", "f", "o", "r",
         "m", "a", "n", "c", "e", "\n", "-", " ", "*", "*", "C", "o", "n", "n",
         "e", "c", "t", "i", "o", "n", " ", "p", "o", "o", "l", "i", "n", "g",
         "*", "*", ":", " ", "I", "m", "p", "l", "e", "m", "e", "n", "t", " ",
         "t", "h", "i", "s", " ", "t", "e", "c", "h", "n", "i", "q", "u", "e",
         " ", "t", "o", " ", "i", "m", "p", "r", "o", "v", "e", " ", "i", "/",
         "o", " ", "p", "e", "r", "f", "o", "r", "m", "a", "n", "c", "e", "\n",
         "-", " ", "*", "*", "B", "a", "t", "c", "h", " ", "p", "r", "o", "c",
         "e", "s", "s", "i", "n", "g", "*", "*", ":", " ", "I", "m", "p", "l",
         "e", "m", "e", "n", "t", " ", "t", "h", "i", "s", " ", "t", "e", "c",
         "h", "n", "i", "q", "u", "e", " ", "t", "o", " ", "i", "m", "p", "r",
         "o", "v", "e", " ", "i", "/", "o", " ", "p", "e", "r", "f", "o", "r",
         "m", "a", "n", "c", "e", "\n", "\n", BQ, BQ, BQ, "p", "y", "t", "h",
         "o", "n", "\n", "#", " ", "I", "/", "O", " ", "P", "e", "r", "f", "o",
         "r", "m", "a", "n", "c", "e", " ", "o", "p", "t", "i", "m", "i", "z",
         "a", "t", "i", "o", "n", " ", "e", "x", "a", "m", "p", "l", "e", "\n",
         "#", " ", "D", "e", "m", "o", "n", "s", "t", "r", "a", "t", "e", "s",
         " ">>,
       \* " performance optimization\n\nclass PerformanceOptimizer:\n    def __init_
       \* _(self):\n        # Initialize i/o performance optimization\n        pass\
       \* n\n    def optimize(self):\n        # Implement i/o performance optimizati
       \* on\n        return optimized_result\n'''\n\n### Performance Monitoring\n\n
       \* Continuous monitoring is essential for maintaining optimal "
       <<" ", "p", "e", "r", "f", "o", "r", "m", "a", "n", "c", "e", " ", "o",
         "p", "t", "i", "m", "i", "z", "a", "t", "i", "o", "n", "\n", "\n", "c",
         "l", "a", "s", "s", " ", "P", "e", "r", "f", "o", "r", "m", "a", "n",
         "c", "e", "O", "p", "t", "i", "m", "i", "z", "e", "r", ":", "\n", " ",
         " ", " ", " ", "d", "e", "f", " ", "_", "_", "i", "n", "i", "t", "_",
         "_", "(", "s", "e", "l", "f", ")", ":", "\n", " ", " ", " ", " ", " ",
         " ", " ", " ", "#", " ", "I", "n", "i", "t", "i", "a", "l", "i", "z",
         "e", " ", "i", "/", "o", " ", "p", "e", "r", "f", "o", "r", "m", "a",
         "n", "c", "e", " ", "o", "p", "t", "i", "m", "i", "z", "a", "t", "i",
         "o", "n", "\n", " ", " ", " ", " ", " ", " ", " ", " ", "p", "a", "s",
         "s", "\n", "\n", " ", " ", " ", " ", "d", "e", "f", " ", "o", "p", "t",
         "i", "m", "i", "z", "e", "(", "s", "e", "l", "f", ")", ":", "\n", " ",
         " ", " ", " ", " ", " ", " ", " ", "#", " ", "I", "m", "p", "l", "e",
         "m", "e", "n", "t", " ", "i", "/", "o", " ", "p", "e", "r", "f", "o",
         "r", "m", "a", "n", "c", "e", " ", "o", "p", "t", "i", "m", "i", "z",
         "a", "t", "i", "o", "n", "\n", " ", " ", " ", " ", " ", " ", " ", " ",
         "r", "e", "t", "u", "r", "n", " ", "o", "p", "t", "i", "m", "i", "z",
         "e", "d", "_", "r", "e", "s", "u", "l", "t", "\n", BQ, BQ, BQ, "\n",
         "\n", "#", "#", "#", " ", "P", "e", "r", "f", "o", "r", "m", "a", "n",
         "c", "e", " ", "M", "o", "n", "i", "t", "o", "r", "i", "n", "g", "\n",
         "\n", "C", "o", "n", "t", "i", "n", "u", "o", "u", "s", " ", "m", "o",
         "n", "i", "t", "o", "r", "i", "n", "g", " ", "i", "s", " ", "e", "s",
         "s", "e", "n", "t", "i", "a", "l", " ", "f", "o", "r", " ", "m", "a",
         "i", "n", "t", "a", "i", "n", "i", "n", "g", " ", "o", "p", "t", "i",
         "m", "a", "l", " ">>,
       \* " performance:\n\n- **Metrics Collection**: Track key performance indicato
       \* rs\n- **Alerting**: Set up alerts for performance degradation\n- **Profili
       \* ng**: Regular performance profiling to identify bottlenecks\n- **Benchmark
       \* ing**: Establish performance baselines and targets\n\n"
       <<" ", "p", "e", "r", "f", "o", "r", "m", "a", "n", "c", "e", ":", "\n",
         "\n", "-", " ", "*", "*", "M", "e", "t", "r", "i", "c", "s", " ", "C",
         "o", "l", "l", "e", "c", "t", "i", "o", "n", "*", "*", ":", " ", "T",
         "r", "a", "c", "k", " ", "k", "e", "y", " ", "p", "e", "r", "f", "o",
         "r", "m", "a", "n", "c", "e", " ", "i", "n", "d", "i", "c", "a", "t",
         "o", "r", "s", "\n", "-", " ", "*", "*", "A", "l", "e", "r", "t", "i",
         "n", "g", "*", "*", ":", " ", "S", "e", "t", " ", "u", "p", " ", "a",
         "l", "e", "r", "t", "s", " ", "f", "o", "r", " ", "p", "e", "r", "f",
         "o", "r", "m", "a", "n", "c", "e", " ", "d", "e", "g", "r", "a", "d",
         "a", "t", "i", "o", "n", "\n", "-", " ", "*", "*", "P", "r", "o", "f",
         "i", "l", "i", "n", "g", "*", "*", ":", " ", "R", "e", "g", "u", "l",
         "a", "r", " ", "p", "e", "r", "f", "o", "r", "m", "a", "n", "c", "e",
         " ", "p", "r", "o", "f", "i", "l", "i", "n", "g", " ", "t", "o", " ",
         "i", "d", "e", "n", "t", "i", "f", "y", " ", "b", "o", "t", "t", "l",
         "e", "n", "e", "c", "k", "s", "\n", "-", " ", "*", "*", "B", "e", "n",
         "c", "h", "m", "a", "r", "k", "i", "n", "g", "*", "*", ":", " ", "E",
         "s", "t", "a", "b", "l", "i", "s", "h", " ", "p", "e", "r", "f", "o",
         "r", "m", "a", "n", "c", "e", " ", "b", "a", "s", "e", "l", "i", "n",
         "e", "s", " ", "a", "n", "d", " ", "t", "a", "r", "g", "e", "t", "s",
         "\n", "\n">> >>

\* generate performance section: the loops over the fixed lists are unrolled
_generate_performance_section(topic, title, description, word_count, audience, keywords) ==
    ConcatAll(<<
        PerformanceText[1], title, PerformanceText[2], topic, PerformanceText[3], topic,
        PerformanceText[4], topic, PerformanceText[5], topic, PerformanceText[6], topic,
        PerformanceText[7], topic, PerformanceText[8], topic, PerformanceText[9], topic,
        PerformanceText[10] >>)

\* the text of the generic section, cut at its parameters
GenericText ==
    << \* "## "
       <<"#", "#", " ">>,
       \* "\n\n"
       <<"\n", "\n">>,
       \* "\n\nThis section explores important aspects of "
       <<"\n", "\n", "T", "h", "i", "s", " ", "s", "e", "c", "t", "i", "o", "n",
         " ", "e", "x", "p", "l", "o", "r", "e", "s", " ", "i", "m", "p", "o",
         "r", "t", "a", "n", "t", " ", "a", "s", "p", "e", "c", "t", "s", " ",
         "o", "f", " ">>,
       \* " that are relevant to "
       <<" ", "t", "h", "a", "t", " ", "a", "r", "e", " ", "r", "e", "l", "e",
         "v", "a", "n", "t", " ", "t", "o", " ">>,
       \* "-level developers. Understanding these concepts will enhance your ability
       \*  to work effectively with "
       <<"-", "l", "e", "v", "e", "l", " ", "d", "e", "v", "e", "l", "o", "p",
         "e", "r", "s", ".", " ", "U", "n", "d", "e", "r", "s", "t", "a", "n",
         "d", "i", "n", "g", " ", "t", "h", "e", "s", "e", " ", "c", "o", "n",
         "c", "e", "p", "t", "s", " ", "w", "i", "l", "l", " ", "e", "n", "h",
         "a", "n", "c", "e", " ", "y", "o", "u", "r", " ", "a", "b", "i", "l",
         "i", "t", "y", " ", "t", "o", " ", "w", "o", "r", "k", " ", "e", "f",
         "f", "e", "c", "t", "i", "v", "e", "l", "y", " ", "w", "i", "t", "h",
         " ">>,
       \* ".\n\n### Key Concepts\n\nThe fundamental concepts in this area of "
       <<".", "\n", "\n", "#", "#", "#", " ", "K", "e", "y", " ", "C", "o", "n",
         "c", "e", "p", "t", "s", "\n", "\n", "T", "h", "e", " ", "f", "u", "n",
         "d", "a", "m", "e", "n", "t", "a", "l", " ", "c", "o", "n", "c", "e",
         "p", "t", "s", " ", "i", "n", " ", "t", "h", "i", "s", " ", "a", "r",
         "e", "a", " ", "o", "f", " ">>,
       \* " include:\n\n- **Core Principles**: Understanding the underlying principl
       \* es that guide this aspect of "
       <<" ", "i", "n", "c", "l", "u", "d", "e", ":", "\n", "\n", "-", " ", "*",
         "*", "C", "o", "r", "e", " ", "P", "r", "i", "n", "c", "i", "p", "l",
         "e", "s", "*", "*", ":", " ", "U", "n", "d", "e", "r", "s", "t", "a",
         "n", "d", "i", "n", "g", " ", "t", "h", "e", " ", "u", "n", "d", "e",
         "r", "l", "y", "i", "n", "g", " ", "p", "r", "i", "n", "c", "i", "p",
         "l", "e", "s", " ", "t", "h", "a", "t", " ", "g", "u", "i", "d", "e",
         " ", "t", "h", "i", "s", " ", "a", "s", "p", "e", "c", "t", " ", "o",
         "f", " ">>,
       \* "\n- **Implementation Strategies**: Different approaches for implementing 
       \* these concepts\n- **Best Practices**: Proven methods for achieving optimal
       \*  results\n\n### Practical Application\n\nApplying these concepts in real-w
       \* orld scenarios requires careful consideration of:\n\n- **Context and Requi
       \* rements**: Understanding your specific use case\n- **Trade-offs and Decisi
       \* ons**: Balancing different factors in your implementation\n- **Integration
       \*  Considerations**: How this fits with your overall "
       <<"\n", "-", " ", "*", "*", "I", "m", "p", "l", "e", "m", "e", "n", "t",
         "a", "t", "i", "o", "n", " ", "S", "t", "r", "a", "t", "e", "g", "i",
         "e", "s", "*", "*", ":", " ", "D", "i", "f", "f", "e", "r", "e", "n",
         "t", " ", "a", "p", "p", "r", "o", "a", "c", "h", "e", "s", " ", "f",
         "o", "r", " ", "i", "m", "p", "l", "e", "m", "e", "n", "t", "i", "n",
         "g", " ", "t", "h", "e", "s", "e", " ", "c", "o", "n", "c", "e", "p",
         "t", "s", "\n", "-", " ", "*", "*", "B", "e", "s", "t", " ", "P", "r",
         "a", "c", "t", "i", "c", "e", "s", "*", "*", ":", " ", "P", "r", "o",
         "v", "e", "n", " ", "m", "e", "t", "h", "o", "d", "s", " ", "f", "o",
         "r", " ", "a", "c", "h", "i", "e", "v", "i", "n", "g", " ", "o", "p",
         "t", "i", "m", "a", "l", " ", "r", "e", "s", "u", "l", "t", "s", "\n",
         "\n", "#", "#", "#", " ", "P", "r", "a", "c", "t", "i", "c", "a", "l",
         " ", "A", "p", "p", "l", "i", "c", "a", "t", "i", "o", "n", "\n", "\n",
         "A", "p", "p", "l", "y", "i", "n", "g", " ", "t", "h", "e", "s", "e",
         " ", "c", "o", "n", "c", "e", "p", "t", "s", " ", "i", "n", " ", "r",
         "e", "a", "l", "-", "w", "o", "r", "l", "d", " ", "s", "c", "e", "n",
         "a", "r", "i", "o", "s", " ", "r", "e", "q", "u", "i", "r", "e", "s",
         " ", "c", "a", "r", "e", "f", "u", "l", " ", "c", "o", "n", "s", "i",
         "d", "e", "r", "a", "t", "i", "o", "n", " ", "o", "f", ":", "\n", "\n",
         "-", " ", "*", "*", "C", "o", "n", "t", "e", "x", "t", " ", "a", "n",
         "d", " ", "R", "e", "q", "u", "i", "r", "e", "m", "e", "n", "t", "s",
         "*", "*", ":", " ", "U", "n", "d", "e", "r", "s", "t", "a", "n", "d",
         "i", "n", "g", " ", "y", "o", "u", "r", " ", "s", "p", "e", "c", "i",
         "f", "i", "c", " ", "u", "s", "e", " ", "c", "a", "s", "e", "\n", "-",
         " ", "*", "*", "T", "r", "a", "d", "e", "-", "o", "f", "f", "s", " ",
         "a", "n", "d", " ", "D", "e", "c", "i", "s", "i", "o", "n", "s", "*",
         "*", ":", " ", "B", "a", "l", "a", "n", "c", "i", "n", "g", " ", "d",
         "i", "f", "f", "e", "r", "e", "n", "t", " ", "f", "a", "c", "t", "o",
         "r", "s", " ", "i", "n", " ", "y", "o", "u", "r", " ", "i", "m", "p",
         "l", "e", "m", "e", "n", "t", "a", "t", "i", "o", "n", "\n", "-", " ",
         "*", "*", "I", "n", "t", "e", "g", "r", "a", "t", "i", "o", "n", " ",
         "C", "o", "n", "s", "i", "d", "e", "r", "a", "t", "i", "o", "n", "s",
         "*", "*", ":", " ", "H", "o", "w", " ", "t", "h", "i", "s", " ", "f",
         "i", "t", "s", " ", "w", "i", "t", "h", " ", "y", "o", "u", "r", " ",
         "o", "v", "e", "r", "a", "l", "l", " ">>,
       \* " strategy\n\n"
       <<" ", "s", "t", "r", "a", "t", "e", "g", "y", "\n", "\n">>,
       \* "### Related Technologies\n\nThis aspect of "
       <<"#", "#", "#", " ", "R", "e", "l", "a", "t", "e", "d", " ", "T", "e",
         "c", "h", "n", "o", "l", "o", "g", "i", "e", "s", "\n", "\n", "T", "h",
         "i", "s", " ", "a", "s", "p", "e", "c", "t", " ", "o", "f", " ">>,
       \* " often involves working with "
       <<" ", "o", "f", "t", "e", "n", " ", "i", "n", "v", "o", "l", "v", "e",
         "s", " ", "w", "o", "r", "k", "i", "n", "g", " ", "w", "i", "t", "h",
         " ">>,
       \* ". Understanding how these technologies interact is important for successf
       \* ul implementation.\n\n"
       <<".", " ", "U", "n", "d", "e", "r", "s", "t", "a", "n", "d", "i", "n",
         "g", " ", "h", "o", "w", " ", "t", "h", "e", "s", "e", " ", "t", "e",
         "c", "h", "n", "o", "l", "o", "g", "i", "e", "s", " ", "i", "n", "t",
         "e", "r", "a", "c", "t", " ", "i", "s", " ", "i", "m", "p", "o", "r",
         "t", "a", "n", "t", " ", "f", "o", "r", " ", "s", "u", "c", "c", "e",
         "s", "s", "f", "u", "l", " ", "i", "m", "p", "l", "e", "m", "e", "n",
         "t", "a", "t", "i", "o", "n", ".", "\n", "\n">> >>

\* generate generic section: the loops over the fixed lists are unrolled
_generate_generic_section(topic, title, description, word_count, audience, keywords) ==
    ConcatAll(<<
        GenericText[1], title, GenericText[2], description, GenericText[3], topic, GenericText[4],
        audience, GenericText[5], topic, GenericText[6], topic, GenericText[7], topic,
        GenericText[8], topic, GenericText[9] >>)
      \o (IF keywords # << >>
            THEN ConcatAll(<<
                GenericText[10], topic, GenericText[11],
                Join(Take(keywords, 3), CommaBlank), GenericText[12] >>)
            ELSE << >>)

\* variant: word_count is the estimate of the outline, not a count of the content
_generate_section_content_estimated(section, topic, audience, keywords) ==
    LET section_title == section.title
        section_description == Get(section, "description", << >>)
        estimated_words == Get(section, "estimated_words", 300)
        section_type == _classify_section_type(section_title)
        content ==
            CASE section_type = "core_concepts" ->
                   _generate_core_concepts_section(topic, section_title,
                       section_description, estimated_words, audience, keywords)
              [] section_type = "implementation" ->
                   _generate_implementation_section(topic, section_title,
                       section_description, estimated_words, audience, keywords)
              [] section_type = "best_practices" ->
                   _generate_best_practices_section(topic, section_title,
                       section_description, estimated_words, audience, keywords)
              [] section_type = "examples" ->
                   _generate_examples_section(topic, section_title,
                       section_description, estimated_words, audience, keywords)
              [] section_type = "advanced_techniques" ->
                   _generate_advanced_section(topic, section_title,
                       section_description, estimated_words, audience, keywords)
              [] section_type = "performance" ->
                   _generate_performance_section(topic, section_title,
                       section_description, estimated_words, audience, keywords)
              [] OTHER ->
                   _generate_generic_section(topic, section_title,
                       section_description, estimated_words, audience, keywords)
    IN [title |-> section_title,
        content |-> content,
        word_count |-> estimated_words,
        section_type |-> section_type]

_generate_section_content(section, topic, audience, keywords) ==
    LET section_title == section.title
        section_description == Get(section, "description", << >>)
        estimated_words == Get(section, "estimated_words", 300)
        section_type == _classify_section_type(section_title)
        content ==
            CASE section_type = "core_concepts" ->
                   _generate_core_concepts_section(topic, section_title,
                       section_description, estimated_words, audience, keywords)
              [] section_type = "implementation" ->
                   _generate_implementation_section(topic, section_title,
                       section_description, estimated_words, audience, keywords)
              [] section_type = "best_practices" ->
                   _generate_best_practices_section(topic, section_title,
                       section_description, estimated_words, audience, keywords)
              [] section_type = "examples" ->
                   _generate_examples_section(topic, section_title,
                       section_description, estimated_words, audience, keywords)
              [] section_type = "advanced_techniques" ->
                   _generate_advanced_section(topic, section_title,
                       section_description, estimated_words, audience, keywords)
              [] section_type = "performance" ->
                   _generate_performance_section(topic, section_title,
                       section_description, estimated_words, audience, keywords)
              [] OTHER ->
                   _generate_generic_section(topic, section_title,
                       section_description, estimated_words, audience, keywords)
    IN [title |-> section_title,
        content |-> content,
        word_count |-> SplitLen(content),
        section_type |-> section_type]

\* the texts between the parts of the content, and the references block
CombineText ==
    << \* "# "
       <<"#", " ">>,
       \* "\n\n"
       <<"\n", "\n">>,
       \* "\n\n"
       <<"\n", "\n">>,
       \* "\n\n"
       <<"\n", "\n">>,
       \* "## Conclusion\n\n"
       <<"#", "#", " ", "C", "o", "n", "c", "l", "u", "s", "i", "o", "n", "\n",
         "\n">>,
       \* "\n\n"
       <<"\n", "\n">>,
       \* "## CombineText[7] and Further Reading\n\n"
       <<"#", "#", " ", "R", "e", "f", "e", "r", "e", "n", "c", "e", "s", " ",
         "a", "n", "d", " ", "F", "u", "r", "t", "h", "e", "r", " ", "R", "e",
         "a", "d", "i", "n", "g", "\n", "\n">>,
       \* "- [Official Documentation](https://example.com/docs)\n"
       <<"-", " ", "[", "O", "f", "f", "i", "c", "i", "a", "l", " ", "D", "o",
         "c", "u", "m", "e", "n", "t", "a", "t", "i", "o", "n", "]", "(", "h",
         "t", "t", "p", "s", ":", "/", "/", "e", "x", "a", "m", "p", "l", "e",
         ".", "c", "o", "m", "/", "d", "o", "c", "s", ")", "\n">>,
       \* "- [Community Resources](https://example.com/community)\n"
       <<"-", " ", "[", "C", "o", "m", "m", "u", "n", "i", "t", "y", " ", "R",
         "e", "s", "o", "u", "r", "c", "e", "s", "]", "(", "h", "t", "t", "p",
         "s", ":", "/", "/", "e", "x", "a", "m", "p", "l", "e", ".", "c", "o",
         "m", "/", "c", "o", "m", "m", "u", "n", "i", "t", "y", ")", "\n">>,
       \* "- [Best Practices Guide](https://example.com/best-practices)\n"
       <<"-", " ", "[", "B", "e", "s", "t", " ", "P", "r", "a", "c", "t", "i",
         "c", "e", "s", " ", "G", "u", "i", "d", "e", "]", "(", "h", "t", "t",
         "p", "s", ":", "/", "/", "e", "x", "a", "m", "p", "l", "e", ".", "c",
         "o", "m", "/", "b", "e", "s", "t", "-", "p", "r", "a", "c", "t", "i",
         "c", "e", "s", ")", "\n">>,
       \* "- [Advanced Tutorials](https://example.com/tutorials)\n\n"
       <<"-", " ", "[", "A", "d", "v", "a", "n", "c", "e", "d", " ", "T", "u",
         "t", "o", "r", "i", "a", "l", "s", "]", "(", "h", "t", "t", "p", "s",
         ":", "/", "/", "e", "x", "a", "m", "p", "l", "e", ".", "c", "o", "m",
         "/", "t", "u", "t", "o", "r", "i", "a", "l", "s", ")", "\n", "\n">> >>

\* variant: the post ends with the conclusion, without the references section
_combine_content_no_references(title, introduction, sections, conclusion) ==
    (CombineText[1] \o title \o CombineText[2])
      \o (introduction \o CombineText[3])
      \o ConcatAll([i \in 1..Len(sections) |-> sections[i].content \o CombineText[4]])
      \o (CombineText[5] \o conclusion \o CombineText[6])

\* variant: the sections follow one another with no blank line between them
_combine_content_unseparated(title, introduction, sections, conclusion) ==
    (CombineText[1] \o title \o CombineText[2])
      \o (introduction \o CombineText[3])
      \o ConcatAll([i \in 1..Len(sections) |-> sections[i].content])
      \o (CombineText[5] \o conclusion \o CombineText[6])
      \o CombineText[7] \o CombineText[8] \o CombineText[9]
      \o CombineText[10] \o CombineText[11]

_combine_content(title, introduction, sections, conclusion) ==
    (CombineText[1] \o title \o CombineText[2])
      \o (introduction \o CombineText[3])
      \o ConcatAll([i \in 1..Len(sections) |-> sections[i].content \o CombineText[4]])
      \o (CombineText[5] \o conclusion \o CombineText[6])
      \o CombineText[7] \o CombineText[8] \o CombineText[9]
      \o CombineText[10] \o CombineText[11]

\* the fixed values of the metadata
MetadataText ==
    << \* "Manus AI"
       <<"M", "a", "n", "u", "s", " ", "A", "I">>,
       \* "technical_blog"
       <<"t", "e", "c", "h", "n", "i", "c", "a", "l", "_", "b", "l", "o", "g">>,
       \* "Technology"
       <<"T", "e", "c", "h", "n", "o", "l", "o", "g", "y">>,
       \* "Development"
       <<"D", "e", "v", "e", "l", "o", "p", "m", "e", "n", "t">>,
       \* "Tutorial"
       <<"T", "u", "t", "o", "r", "i", "a", "l">>,
       \* "development"
       <<"d", "e", "v", "e", "l", "o", "p", "m", "e", "n", "t">>,
       \* "programming"
       <<"p", "r", "o", "g", "r", "a", "m", "m", "i", "n", "g">> >>

_generate_metadata(topic, keywords, audience) ==
    [author |-> MetadataText[1],
     topic |-> topic,
     keywords |-> keywords,
     target_audience |-> audience,
     content_type |-> MetadataText[2],
     seo_optimized |-> TRUE,
     reading_level |-> audience,
     categories |-> <<MetadataText[3], MetadataText[4], MetadataText[5]>>,
     tags |-> keywords \o <<topic, MetadataText[6], MetadataText[7]>>]

\* round(n / d) of Python: to the nearest integer, a tie to the even one
round_div(n, d) ==
    LET q == n \div d
        r == n % d
    IN IF 2 * r < d THEN q
       ELSE IF 2 * r > d THEN q + 1
       ELSE IF q % 2 = 0 THEN q ELSE q + 1

\* variant: the quotient is cut off instead of rounded
_calculate_reading_time_truncated(content) ==
    LET word_count == SplitLen(content)
        reading_time == word_count \div 225
    IN IF reading_time < 1 THEN 1 ELSE reading_time

_calculate_reading_time(content) ==
    LET word_count == SplitLen(content)
        reading_time == round_div(word_count, 225)
    IN IF reading_time < 1 THEN 1 ELSE reading_time

\* "introduction"
S_Introduction ==
    <<"i", "n", "t", "r", "o", "d", "u", "c", "t", "i", "o", "n">>

\* "conclusion"
S_Conclusion ==
    <<"c", "o", "n", "c", "l", "u", "s", "i", "o", "n">>

\* variant: every section of the outline is generated, the introduction and
\* conclusion sections too
generate_complete_blog_post_unfiltered(outline, rnd, now) ==
    LET topic == Get(outline, "topic", << >>)
        target_audience == Get(outline, "target_audience", A_Intermediate)
        keywords == Get(outline, "keywords", << >>)
        sections == Get(outline, "sections", << >>)
        title == _generate_title(topic, keywords, target_audience, rnd.title)
        introduction == _generate_introduction(topic, target_audience, keywords,
                                               rnd.introduction, rnd.hook)
        kept == sections
        content_sections ==
            [i \in 1..Len(kept) |->
                _generate_section_content(kept[i], topic, target_audience, keywords)]
        conclusion == _generate_conclusion(topic, target_audience, keywords,
                                           rnd.conclusion, rnd.cta)
        full_content == _combine_content(title, introduction, content_sections, conclusion)
        metadata == _generate_metadata(topic, keywords, target_audience)
    IN [title |-> title,
        introduction |-> introduction,
        content |-> full_content,
        conclusion |-> conclusion,
        sections |-> content_sections,
        keywords |-> keywords,
        target_audience |-> target_audience,
        metadata |-> metadata,
        generated_at |-> now,
        word_count |-> SplitLen(full_content),
        estimated_reading_time |-> _calculate_reading_time(full_content)]

\* variant: the title of a section is compared as it is written
generate_complete_blog_post_case_sensitive(outline, rnd, now) ==
    LET topic == Get(outline, "topic", << >>)
        target_audience == Get(outline, "target_audience", A_Intermediate)
        keywords == Get(outline, "keywords", << >>)
        sections == Get(outline, "sections", << >>)
        title == _generate_title(topic, keywords, target_audience, rnd.title)
        introduction == _generate_introduction(topic, target_audience, keywords,
                                               rnd.introduction, rnd.hook)
        kept == SelectSeq(sections,
                    LAMBDA section : section.title \notin {S_Introduction, S_Conclusion})
        content_sections ==
            [i \in 1..Len(kept) |->
                _generate_section_content(kept[i], topic, target_audience, keywords)]
        conclusion == _generate_conclusion(topic, target_audience, keywords,
                                           rnd.conclusion, rnd.cta)
        full_content == _combine_content(title, introduction, content_sections, conclusion)
        metadata == _generate_metadata(topic, keywords, target_audience)
    IN [title |-> title,
        introduction |-> introduction,
        content |-> full_content,
        conclusion |-> conclusion,
        sections |-> content_sections,
        keywords |-> keywords,
        target_audience |-> target_audience,
        metadata |-> metadata,
        generated_at |-> now,
        word_count |-> SplitLen(full_content),
        estimated_reading_time |-> _calculate_reading_time(full_content)]

\* rnd holds the five random.choice results, now the clock reading
generate_complete_blog_post(outline, rnd, now) ==
    LET topic == Get(outline, "topic", << >>)
        target_audience == Get(outline, "target_audience", A_Intermediate)
        keywords == Get(outline, "keywords", << >>)
        sections == Get(outline, "sections", << >>)
        title == _generate_title(topic, keywords, target_audience, rnd.title)
        introduction == _generate_introduction(topic, target_audience, keywords,
                                               rnd.introduction, rnd.hook)
        kept == SelectSeq(sections,
                    LAMBDA section : lower(section.title) \notin {S_Introduction, S_Conclusion})
        content_sections ==
            [i \in 1..Len(kept) |->
                _generate_section_content(kept[i], topic, target_audience, keywords)]
        conclusion == _generate_conclusion(topic, target_audience, keywords,
                                           rnd.conclusion, rnd.cta)
        full_content == _combine_content(title, introduction, content_sections, conclusion)
        metadata == _generate_metadata(topic, keywords, target_audience)
    IN [title |-> title,
        introduction |-> introduction,
        content |-> full_content,
        conclusion |-> conclusion,
        sections |-> content_sections,
        keywords |-> keywords,
        target_audience |-> target_audience,
        metadata |-> metadata,
        generated_at |-> now,
        word_count |-> SplitLen(full_content),
        estimated_reading_time |-> _calculate_reading_time(full_content)]

\* the texts of the fallback outline
HttpOutlineText ==
    << \* "The Complete Guide to "
       <<"T", "h", "e", " ", "C", "o", "m", "p", "l", "e", "t", "e", " ", "G",
         "u", "i", "d", "e", " ", "t", "o", " ">>,
       \* ": Best Practices for "
       <<":", " ", "B", "e", "s", "t", " ", "P", "r", "a", "c", "t", "i", "c",
         "e", "s", " ", "f", "o", "r", " ">>,
       \* " Developers"
       <<" ", "D", "e", "v", "e", "l", "o", "p", "e", "r", "s">>,
       \* "Mastering "
       <<"M", "a", "s", "t", "e", "r", "i", "n", "g", " ">>,
       \* ": A Comprehensive "
       <<":", " ", "A", " ", "C", "o", "m", "p", "r", "e", "h", "e", "n", "s",
         "i", "v", "e", " ">>,
       \* " Tutorial"
       <<" ", "T", "u", "t", "o", "r", "i", "a", "l">>,
       \* " Explained: Essential Concepts for "
       <<" ", "E", "x", "p", "l", "a", "i", "n", "e", "d", ":", " ", "E", "s",
         "s", "e", "n", "t", "i", "a", "l", " ", "C", "o", "n", "c", "e", "p",
         "t", "s", " ", "f", "o", "r", " ">>,
       \* " Users"
       <<" ", "U", "s", "e", "r", "s">>,
       \* "Introduction"
       <<"I", "n", "t", "r", "o", "d", "u", "c", "t", "i", "o", "n">>,
       \* "Overview of "
       <<"O", "v", "e", "r", "v", "i", "e", "w", " ", "o", "f", " ">>,
       \* " and its importance in modern development"
       <<" ", "a", "n", "d", " ", "i", "t", "s", " ", "i", "m", "p", "o", "r",
         "t", "a", "n", "c", "e", " ", "i", "n", " ", "m", "o", "d", "e", "r",
         "n", " ", "d", "e", "v", "e", "l", "o", "p", "m", "e", "n", "t">>,
       \* "Core Concepts"
       <<"C", "o", "r", "e", " ", "C", "o", "n", "c", "e", "p", "t", "s">>,
       \* "Fundamental principles and concepts of "
       <<"F", "u", "n", "d", "a", "m", "e", "n", "t", "a", "l", " ", "p", "r",
         "i", "n", "c", "i", "p", "l", "e", "s", " ", "a", "n", "d", " ", "c",
         "o", "n", "c", "e", "p", "t", "s", " ", "o", "f", " ">>,
       \* "Implementation Guide"
       <<"I", "m", "p", "l", "e", "m", "e", "n", "t", "a", "t", "i", "o", "n",
         " ", "G", "u", "i", "d", "e">>,
       \* "Step-by-step guide to implementing "
       <<"S", "t", "e", "p", "-", "b", "y", "-", "s", "t", "e", "p", " ", "g",
         "u", "i", "d", "e", " ", "t", "o", " ", "i", "m", "p", "l", "e", "m",
         "e", "n", "t", "i", "n", "g", " ">>,
       \* "Best Practices"
       <<"B", "e", "s", "t", " ", "P", "r", "a", "c", "t", "i", "c", "e", "s">>,
       \* "Industry best practices and recommendations for "
       <<"I", "n", "d", "u", "s", "t", "r", "y", " ", "b", "e", "s", "t", " ",
         "p", "r", "a", "c", "t", "i", "c", "e", "s", " ", "a", "n", "d", " ",
         "r", "e", "c", "o", "m", "m", "e", "n", "d", "a", "t", "i", "o", "n",
         "s", " ", "f", "o", "r", " ">>,
       \* "Real-world Examples"
       <<"R", "e", "a", "l", "-", "w", "o", "r", "l", "d", " ", "E", "x", "a",
         "m", "p", "l", "e", "s">>,
       \* "Practical examples and use cases of "
       <<"P", "r", "a", "c", "t", "i", "c", "a", "l", " ", "e", "x", "a", "m",
         "p", "l", "e", "s", " ", "a", "n", "d", " ", "u", "s", "e", " ", "c",
         "a", "s", "e", "s", " ", "o", "f", " ">>,
       \* "Conclusion"
       <<"C", "o", "n", "c", "l", "u", "s", "i", "o", "n">>,
       \* "Summary and next steps for "
       <<"S", "u", "m", "m", "a", "r", "y", " ", "a", "n", "d", " ", "n", "e",
         "x", "t", " ", "s", "t", "e", "p", "s", " ", "f", "o", "r", " ">> >>

\* the mock outline of the fallback branch
HttpFallbackOutline(topic, target_audience, keywords, desired_length, now) ==
    [topic |-> topic,
     target_audience |-> target_audience,
     keywords |-> keywords,
     desired_length |-> desired_length,
     title_suggestions |-> <<
            HttpOutlineText[1] \o topic \o HttpOutlineText[2] \o str_title(target_audience) \o HttpOutlineText[3],
            HttpOutlineText[4] \o topic \o HttpOutlineText[5] \o str_title(target_audience) \o HttpOutlineText[6],
            topic \o HttpOutlineText[7] \o str_title(target_audience) \o HttpOutlineText[8] >>,
     sections |-> <<
            Section(HttpOutlineText[9],
                    HttpOutlineText[10] \o topic \o HttpOutlineText[11], 200),
            Section(HttpOutlineText[12],
                    HttpOutlineText[13] \o topic, 400),
            Section(HttpOutlineText[14],
                    HttpOutlineText[15] \o topic, 600),
            Section(HttpOutlineText[16],
                    HttpOutlineText[17] \o topic, 300),
            Section(HttpOutlineText[18],
                    HttpOutlineText[19] \o topic, 400),
            Section(HttpOutlineText[20],
                    HttpOutlineText[21] \o topic, 150) >>,
     estimated_total_words |-> 2050,
     generated_at |-> now]

\* the texts of the fallback blog post
HttpBlogText ==
    << \* "The Complete Guide to "
       <<"T", "h", "e", " ", "C", "o", "m", "p", "l", "e", "t", "e", " ", "G",
         "u", "i", "d", "e", " ", "t", "o", " ">>,
       \* ": Best Practices for "
       <<":", " ", "B", "e", "s", "t", " ", "P", "r", "a", "c", "t", "i", "c",
         "e", "s", " ", "f", "o", "r", " ">>,
       \* " Developers"
       <<" ", "D", "e", "v", "e", "l", "o", "p", "e", "r", "s">>,
       \* "In today's rapidly evolving technology landscape, "
       <<"I", "n", " ", "t", "o", "d", "a", "y", "'", "s", " ", "r", "a", "p",
         "i", "d", "l", "y", " ", "e", "v", "o", "l", "v", "i", "n", "g", " ",
         "t", "e", "c", "h", "n", "o", "l", "o", "g", "y", " ", "l", "a", "n",
         "d", "s", "c", "a", "p", "e", ",", " ">>,
       \* " has emerged as a critical component for modern development. This compreh
       \* ensive guide will explore the fundamental concepts, practical implementati
       \* ons, and best practices that will help you master "
       <<" ", "h", "a", "s", " ", "e", "m", "e", "r", "g", "e", "d", " ", "a",
         "s", " ", "a", " ", "c", "r", "i", "t", "i", "c", "a", "l", " ", "c",
         "o", "m", "p", "o", "n", "e", "n", "t", " ", "f", "o", "r", " ", "m",
         "o", "d", "e", "r", "n", " ", "d", "e", "v", "e", "l", "o", "p", "m",
         "e", "n", "t", ".", " ", "T", "h", "i", "s", " ", "c", "o", "m", "p",
         "r", "e", "h", "e", "n", "s", "i", "v", "e", " ", "g", "u", "i", "d",
         "e", " ", "w", "i", "l", "l", " ", "e", "x", "p", "l", "o", "r", "e",
         " ", "t", "h", "e", " ", "f", "u", "n", "d", "a", "m", "e", "n", "t",
         "a", "l", " ", "c", "o", "n", "c", "e", "p", "t", "s", ",", " ", "p",
         "r", "a", "c", "t", "i", "c", "a", "l", " ", "i", "m", "p", "l", "e",
         "m", "e", "n", "t", "a", "t", "i", "o", "n", "s", ",", " ", "a", "n",
         "d", " ", "b", "e", "s", "t", " ", "p", "r", "a", "c", "t", "i", "c",
         "e", "s", " ", "t", "h", "a", "t", " ", "w", "i", "l", "l", " ", "h",
         "e", "l", "p", " ", "y", "o", "u", " ", "m", "a", "s", "t", "e", "r",
         " ">>,
       \* " and leverage its full potential in your projects."
       <<" ", "a", "n", "d", " ", "l", "e", "v", "e", "r", "a", "g", "e", " ",
         "i", "t", "s", " ", "f", "u", "l", "l", " ", "p", "o", "t", "e", "n",
         "t", "i", "a", "l", " ", "i", "n", " ", "y", "o", "u", "r", " ", "p",
         "r", "o", "j", "e", "c", "t", "s", ".">>,
       \* "# "
       <<"#", " ">>,
       \* ": A Comprehensive Guide\n\n## Introduction\n\nIn today's rapidly evolving
       \*  technology landscape, "
       <<":", " ", "A", " ", "C", "o", "m", "p", "r", "e", "h", "e", "n", "s",
         "i", "v", "e", " ", "G", "u", "i", "d", "e", "\n", "\n", "#", "#", " ",
         "I", "n", "t", "r", "o", "d", "u", "c", "t", "i", "o", "n", "\n", "\n",
         "I", "n", " ", "t", "o", "d", "a", "y", "'", "s", " ", "r", "a", "p",
         "i", "d", "l", "y", " ", "e", "v", "o", "l", "v", "i", "n", "g", " ",
         "t", "e", "c", "h", "n", "o", "l", "o", "g", "y", " ", "l", "a", "n",
         "d", "s", "c", "a", "p", "e", ",", " ">>,
       \* " has emerged as a critical component for modern development. This compreh
       \* ensive guide will explore the fundamental concepts, practical implementati
       \* ons, and best practices that will help you master "
       <<" ", "h", "a", "s", " ", "e", "m", "e", "r", "g", "e", "d", " ", "a",
         "s", " ", "a", " ", "c", "r", "i", "t", "i", "c", "a", "l", " ", "c",
         "o", "m", "p", "o", "n", "e", "n", "t", " ", "f", "o", "r", " ", "m",
         "o", "d", "e", "r", "n", " ", "d", "e", "v", "e", "l", "o", "p", "m",
         "e", "n", "t", ".", " ", "T", "h", "i", "s", " ", "c", "o", "m", "p",
         "r", "e", "h", "e", "n", "s", "i", "v", "e", " ", "g", "u", "i", "d",
         "e", " ", "w", "i", "l", "l", " ", "e", "x", "p", "l", "o", "r", "e",
         " ", "t", "h", "e", " ", "f", "u", "n", "d", "a", "m", "e", "n", "t",
         "a", "l", " ", "c", "o", "n", "c", "e", "p", "t", "s", ",", " ", "p",
         "r", "a", "c", "t", "i", "c", "a", "l", " ", "i", "m", "p", "l", "e",
         "m", "e", "n", "t", "a", "t", "i", "o", "n", "s", ",", " ", "a", "n",
         "d", " ", "b", "e", "s", "t", " ", "p", "r", "a", "c", "t", "i", "c",
         "e", "s", " ", "t", "h", "a", "t", " ", "w", "i", "l", "l", " ", "h",
         "e", "l", "p", " ", "y", "o", "u", " ", "m", "a", "s", "t", "e", "r",
         " ">>,
       \* " and leverage its full potential in your projects.\n\n## Core Concepts\n\
       \* nUnderstanding the fundamental principles of "
       <<" ", "a", "n", "d", " ", "l", "e", "v", "e", "r", "a", "g", "e", " ",
         "i", "t", "s", " ", "f", "u", "l", "l", " ", "p", "o", "t", "e", "n",
         "t", "i", "a", "l", " ", "i", "n", " ", "y", "o", "u", "r", " ", "p",
         "r", "o", "j", "e", "c", "t", "s", ".", "\n", "\n", "#", "#", " ", "C",
         "o", "r", "e", " ", "C", "o", "n", "c", "e", "p", "t", "s", "\n", "\n",
         "U", "n", "d", "e", "r", "s", "t", "a", "n", "d", "i", "n", "g", " ",
         "t", "h", "e", " ", "f", "u", "n", "d", "a", "m", "e", "n", "t", "a",
         "l", " ", "p", "r", "i", "n", "c", "i", "p", "l", "e", "s", " ", "o",
         "f", " ">>,
       \* " is essential for effective implementation. This section covers the key c
       \* oncepts that form the foundation of "
       <<" ", "i", "s", " ", "e", "s", "s", "e", "n", "t", "i", "a", "l", " ",
         "f", "o", "r", " ", "e", "f", "f", "e", "c", "t", "i", "v", "e", " ",
         "i", "m", "p", "l", "e", "m", "e", "n", "t", "a", "t", "i", "o", "n",
         ".", " ", "T", "h", "i", "s", " ", "s", "e", "c", "t", "i", "o", "n",
         " ", "c", "o", "v", "e", "r", "s", " ", "t", "h", "e", " ", "k", "e",
         "y", " ", "c", "o", "n", "c", "e", "p", "t", "s", " ", "t", "h", "a",
         "t", " ", "f", "o", "r", "m", " ", "t", "h", "e", " ", "f", "o", "u",
         "n", "d", "a", "t", "i", "o", "n", " ", "o", "f", " ">>,
       \* " technology.\n\n### Key Principles\n\nThe core principles of "
       <<" ", "t", "e", "c", "h", "n", "o", "l", "o", "g", "y", ".", "\n", "\n",
         "#", "#", "#", " ", "K", "e", "y", " ", "P", "r", "i", "n", "c", "i",
         "p", "l", "e", "s", "\n", "\n", "T", "h", "e", " ", "c", "o", "r", "e",
         " ", "p", "r", "i", "n", "c", "i", "p", "l", "e", "s", " ", "o", "f",
         " ">>,
       \* " include scalability, reliability, and maintainability. These principles 
       \* guide the design and implementation of "
       <<" ", "i", "n", "c", "l", "u", "d", "e", " ", "s", "c", "a", "l", "a",
         "b", "i", "l", "i", "t", "y", ",", " ", "r", "e", "l", "i", "a", "b",
         "i", "l", "i", "t", "y", ",", " ", "a", "n", "d", " ", "m", "a", "i",
         "n", "t", "a", "i", "n", "a", "b", "i", "l", "i", "t", "y", ".", " ",
         "T", "h", "e", "s", "e", " ", "p", "r", "i", "n", "c", "i", "p", "l",
         "e", "s", " ", "g", "u", "i", "d", "e", " ", "t", "h", "e", " ", "d",
         "e", "s", "i", "g", "n", " ", "a", "n", "d", " ", "i", "m", "p", "l",
         "e", "m", "e", "n", "t", "a", "t", "i", "o", "n", " ", "o", "f", " ">>,
       \* " solutions.\n\n## Implementation Guide\n\nThis section provides step-by-s
       \* tep guidance for implementing "
       <<" ", "s", "o", "l", "u", "t", "i", "o", "n", "s", ".", "\n", "\n", "#",
         "#", " ", "I", "m", "p", "l", "e", "m", "e", "n", "t", "a", "t", "i",
         "o", "n", " ", "G", "u", "i", "d", "e", "\n", "\n", "T", "h", "i", "s",
         " ", "s", "e", "c", "t", "i", "o", "n", " ", "p", "r", "o", "v", "i",
         "d", "e", "s", " ", "s", "t", "e", "p", "-", "b", "y", "-", "s", "t",
         "e", "p", " ", "g", "u", "i", "d", "a", "n", "c", "e", " ", "f", "o",
         "r", " ", "i", "m", "p", "l", "e", "m", "e", "n", "t", "i", "n", "g",
         " ">>,
       \* " in your projects. We'll cover the essential tools, configurations, and b
       \* est practices.\n\n### Getting Started\n\nTo begin with "
       <<" ", "i", "n", " ", "y", "o", "u", "r", " ", "p", "r", "o", "j", "e",
         "c", "t", "s", ".", " ", "W", "e", "'", "l", "l", " ", "c", "o", "v",
         "e", "r", " ", "t", "h", "e", " ", "e", "s", "s", "e", "n", "t", "i",
         "a", "l", " ", "t", "o", "o", "l", "s", ",", " ", "c", "o", "n", "f",
         "i", "g", "u", "r", "a", "t", "i", "o", "n", "s", ",", " ", "a", "n",
         "d", " ", "b", "e", "s", "t", " ", "p", "r", "a", "c", "t", "i", "c",
         "e", "s", ".", "\n", "\n", "#", "#", "#", " ", "G", "e", "t", "t", "i",
         "n", "g", " ", "S", "t", "a", "r", "t", "e", "d", "\n", "\n", "T", "o",
         " ", "b", "e", "g", "i", "n", " ", "w", "i", "t", "h", " ">>,
       \* ", you'll need to set up your development environment and install the nece
       \* ssary tools.\n\n### Configuration\n\nProper configuration is crucial for s
       \* uccessful "
       <<",", " ", "y", "o", "u", "'", "l", "l", " ", "n", "e", "e", "d", " ",
         "t", "o", " ", "s", "e", "t", " ", "u", "p", " ", "y", "o", "u", "r",
         " ", "d", "e", "v", "e", "l", "o", "p", "m", "e", "n", "t", " ", "e",
         "n", "v", "i", "r", "o", "n", "m", "e", "n", "t", " ", "a", "n", "d",
         " ", "i", "n", "s", "t", "a", "l", "l", " ", "t", "h", "e", " ", "n",
         "e", "c", "e", "s", "s", "a", "r", "y", " ", "t", "o", "o", "l", "s",
         ".", "\n", "\n", "#", "#", "#", " ", "C", "o", "n", "f", "i", "g", "u",
         "r", "a", "t", "i", "o", "n", "\n", "\n", "P", "r", "o", "p", "e", "r",
         " ", "c", "o", "n", "f", "i", "g", "u", "r", "a", "t", "i", "o", "n",
         " ", "i", "s", " ", "c", "r", "u", "c", "i", "a", "l", " ", "f", "o",
         "r", " ", "s", "u", "c", "c", "e", "s", "s", "f", "u", "l", " ">>,
       \* " implementation. This includes setting up the required parameters and opt
       \* imizing for your specific use case.\n\n## Best Practices\n\nFollowing esta
       \* blished best practices ensures reliable and maintainable "
       <<" ", "i", "m", "p", "l", "e", "m", "e", "n", "t", "a", "t", "i", "o",
         "n", ".", " ", "T", "h", "i", "s", " ", "i", "n", "c", "l", "u", "d",
         "e", "s", " ", "s", "e", "t", "t", "i", "n", "g", " ", "u", "p", " ",
         "t", "h", "e", " ", "r", "e", "q", "u", "i", "r", "e", "d", " ", "p",
         "a", "r", "a", "m", "e", "t", "e", "r", "s", " ", "a", "n", "d", " ",
         "o", "p", "t", "i", "m", "i", "z", "i", "n", "g", " ", "f", "o", "r",
         " ", "y", "o", "u", "r", " ", "s", "p", "e", "c", "i", "f", "i", "c",
         " ", "u", "s", "e", " ", "c", "a", "s", "e", ".", "\n", "\n", "#", "#",
         " ", "B", "e", "s", "t", " ", "P", "r", "a", "c", "t", "i", "c", "e",
         "s", "\n", "\n", "F", "o", "l", "l", "o", "w", "i", "n", "g", " ", "e",
         "s", "t", "a", "b", "l", "i", "s", "h", "e", "d", " ", "b", "e", "s",
         "t", " ", "p", "r", "a", "c", "t", "i", "c", "e", "s", " ", "e", "n",
         "s", "u", "r", "e", "s", " ", "r", "e", "l", "i", "a", "b", "l", "e",
         " ", "a", "n", "d", " ", "m", "a", "i", "n", "t", "a", "i", "n", "a",
         "b", "l", "e", " ">>,
       \* " implementations. This section covers industry-standard approaches and re
       \* commendations.\n\n### Performance Optimization\n\nOptimizing performance i
       \* s essential for production "
       <<" ", "i", "m", "p", "l", "e", "m", "e", "n", "t", "a", "t", "i", "o",
         "n", "s", ".", " ", "T", "h", "i", "s", " ", "s", "e", "c", "t", "i",
         "o", "n", " ", "c", "o", "v", "e", "r", "s", " ", "i", "n", "d", "u",
         "s", "t", "r", "y", "-", "s", "t", "a", "n", "d", "a", "r", "d", " ",
         "a", "p", "p", "r", "o", "a", "c", "h", "e", "s", " ", "a", "n", "d",
         " ", "r", "e", "c", "o", "m", "m", "e", "n", "d", "a", "t", "i", "o",
         "n", "s", ".", "\n", "\n", "#", "#", "#", " ", "P", "e", "r", "f", "o",
         "r", "m", "a", "n", "c", "e", " ", "O", "p", "t", "i", "m", "i", "z",
         "a", "t", "i", "o", "n", "\n", "\n", "O", "p", "t", "i", "m", "i", "z",
         "i", "n", "g", " ", "p", "e", "r", "f", "o", "r", "m", "a", "n", "c",
         "e", " ", "i", "s", " ", "e", "s", "s", "e", "n", "t", "i", "a", "l",
         " ", "f", "o", "r", " ", "p", "r", "o", "d", "u", "c", "t", "i", "o",
         "n", " ">>,
       \* " deployments. Consider factors such as resource allocation, caching strat
       \* egies, and monitoring.\n\n### Security Considerations\n\nSecurity should b
       \* e a primary concern when implementing "
       <<" ", "d", "e", "p", "l", "o", "y", "m", "e", "n", "t", "s", ".", " ",
         "C", "o", "n", "s", "i", "d", "e", "r", " ", "f", "a", "c", "t", "o",
         "r", "s", " ", "s", "u", "c", "h", " ", "a", "s", " ", "r", "e", "s",
         "o", "u", "r", "c", "e", " ", "a", "l", "l", "o", "c", "a", "t", "i",
         "o", "n", ",", " ", "c", "a", "c", "h", "i", "n", "g", " ", "s", "t",
         "r", "a", "t", "e", "g", "i", "e", "s", ",", " ", "a", "n", "d", " ",
         "m", "o", "n", "i", "t", "o", "r", "i", "n", "g", ".", "\n", "\n", "#",
         "#", "#", " ", "S", "e", "c", "u", "r", "i", "t", "y", " ", "C", "o",
         "n", "s", "i", "d", "e", "r", "a", "t", "i", "o", "n", "s", "\n", "\n",
         "S", "e", "c", "u", "r", "i", "t", "y", " ", "s", "h", "o", "u", "l",
         "d", " ", "b", "e", " ", "a", " ", "p", "r", "i", "m", "a", "r", "y",
         " ", "c", "o", "n", "c", "e", "r", "n", " ", "w", "h", "e", "n", " ",
         "i", "m", "p", "l", "e", "m", "e", "n", "t", "i", "n", "g", " ">>,
       \* ". Follow security best practices and regularly update your implementation
       \* s.\n\n## Real-world Examples\n\nThis section provides practical examples a
       \* nd use cases that demonstrate "
       <<".", " ", "F", "o", "l", "l", "o", "w", " ", "s", "e", "c", "u", "r",
         "i", "t", "y", " ", "b", "e", "s", "t", " ", "p", "r", "a", "c", "t",
         "i", "c", "e", "s", " ", "a", "n", "d", " ", "r", "e", "g", "u", "l",
         "a", "r", "l", "y", " ", "u", "p", "d", "a", "t", "e", " ", "y", "o",
         "u", "r", " ", "i", "m", "p", "l", "e", "m", "e", "n", "t", "a", "t",
         "i", "o", "n", "s", ".", "\n", "\n", "#", "#", " ", "R", "e", "a", "l",
         "-", "w", "o", "r", "l", "d", " ", "E", "x", "a", "m", "p", "l", "e",
         "s", "\n", "\n", "T", "h", "i", "s", " ", "s", "e", "c", "t", "i", "o",
         "n", " ", "p", "r", "o", "v", "i", "d", "e", "s", " ", "p", "r", "a",
         "c", "t", "i", "c", "a", "l", " ", "e", "x", "a", "m", "p", "l", "e",
         "s", " ", "a", "n", "d", " ", "u", "s", "e", " ", "c", "a", "s", "e",
         "s", " ", "t", "h", "a", "t", " ", "d", "e", "m", "o", "n", "s", "t",
         "r", "a", "t", "e", " ">>,
       \* " in action. These examples help bridge the gap between theory and practic
       \* e.\n\n### Example 1: Basic Implementation\n\nA simple example showing how 
       \* to implement "
       <<" ", "i", "n", " ", "a", "c", "t", "i", "o", "n", ".", " ", "T", "h",
         "e", "s", "e", " ", "e", "x", "a", "m", "p", "l", "e", "s", " ", "h",
         "e", "l", "p", " ", "b", "r", "i", "d", "g", "e", " ", "t", "h", "e",
         " ", "g", "a", "p", " ", "b", "e", "t", "w", "e", "e", "n", " ", "t",
         "h", "e", "o", "r", "y", " ", "a", "n", "d", " ", "p", "r", "a", "c",
         "t", "i", "c", "e", ".", "\n", "\n", "#", "#", "#", " ", "E", "x", "a",
         "m", "p", "l", "e", " ", "1", ":", " ", "B", "a", "s", "i", "c", " ",
         "I", "m", "p", "l", "e", "m", "e", "n", "t", "a", "t", "i", "o", "n",
         "\n", "\n", "A", " ", "s", "i", "m", "p", "l", "e", " ", "e", "x", "a",
         "m", "p", "l", "e", " ", "s", "h", "o", "w", "i", "n", "g", " ", "h",
         "o", "w", " ", "t", "o", " ", "i", "m", "p", "l", "e", "m", "e", "n",
         "t", " ">>,
       \* " for a basic use case.\n\n### Example 2: Advanced Configuration\n\nAn adv
       \* anced example demonstrating complex "
       <<" ", "f", "o", "r", " ", "a", " ", "b", "a", "s", "i", "c", " ", "u",
         "s", "e", " ", "c", "a", "s", "e", ".", "\n", "\n", "#", "#", "#", " ",
         "E", "x", "a", "m", "p", "l", "e", " ", "2", ":", " ", "A", "d", "v",
         "a", "n", "c", "e", "d", " ", "C", "o", "n", "f", "i", "g", "u", "r",
         "a", "t", "i", "o", "n", "\n", "\n", "A", "n", " ", "a", "d", "v", "a",
         "n", "c", "e", "d", " ", "e", "x", "a", "m", "p", "l", "e", " ", "d",
         "e", "m", "o", "n", "s", "t", "r", "a", "t", "i", "n", "g", " ", "c",
         "o", "m", "p", "l", "e", "x", " ">>,
       \* " configurations and optimizations.\n\n## Conclusion\n\nThroughout this gu
       \* ide, we've explored the essential aspects of "
       <<" ", "c", "o", "n", "f", "i", "g", "u", "r", "a", "t", "i", "o", "n",
         "s", " ", "a", "n", "d", " ", "o", "p", "t", "i", "m", "i", "z", "a",
         "t", "i", "o", "n", "s", ".", "\n", "\n", "#", "#", " ", "C", "o", "n",
         "c", "l", "u", "s", "i", "o", "n", "\n", "\n", "T", "h", "r", "o", "u",
         "g", "h", "o", "u", "t", " ", "t", "h", "i", "s", " ", "g", "u", "i",
         "d", "e", ",", " ", "w", "e", "'", "v", "e", " ", "e", "x", "p", "l",
         "o", "r", "e", "d", " ", "t", "h", "e", " ", "e", "s", "s", "e", "n",
         "t", "i", "a", "l", " ", "a", "s", "p", "e", "c", "t", "s", " ", "o",
         "f", " ">>,
       \* ", from fundamental concepts to practical implementation strategies. By fo
       \* llowing the best practices and examples provided, you'll be well-equipped 
       \* to successfully implement "
       <<",", " ", "f", "r", "o", "m", " ", "f", "u", "n", "d", "a", "m", "e",
         "n", "t", "a", "l", " ", "c", "o", "n", "c", "e", "p", "t", "s", " ",
         "t", "o", " ", "p", "r", "a", "c", "t", "i", "c", "a", "l", " ", "i",
         "m", "p", "l", "e", "m", "e", "n", "t", "a", "t", "i", "o", "n", " ",
         "s", "t", "r", "a", "t", "e", "g", "i", "e", "s", ".", " ", "B", "y",
         " ", "f", "o", "l", "l", "o", "w", "i", "n", "g", " ", "t", "h", "e",
         " ", "b", "e", "s", "t", " ", "p", "r", "a", "c", "t", "i", "c", "e",
         "s", " ", "a", "n", "d", " ", "e", "x", "a", "m", "p", "l", "e", "s",
         " ", "p", "r", "o", "v", "i", "d", "e", "d", ",", " ", "y", "o", "u",
         "'", "l", "l", " ", "b", "e", " ", "w", "e", "l", "l", "-", "e", "q",
         "u", "i", "p", "p", "e", "d", " ", "t", "o", " ", "s", "u", "c", "c",
         "e", "s", "s", "f", "u", "l", "l", "y", " ", "i", "m", "p", "l", "e",
         "m", "e", "n", "t", " ">>,
       \* " in your projects.\n\nThe key takeaways include understanding the core pr
       \* inciples, following best practices, and continuously monitoring and optimi
       \* zing your implementations. As "
       <<" ", "i", "n", " ", "y", "o", "u", "r", " ", "p", "r", "o", "j", "e",
         "c", "t", "s", ".", "\n", "\n", "T", "h", "e", " ", "k", "e", "y", " ",
         "t", "a", "k", "e", "a", "w", "a", "y", "s", " ", "i", "n", "c", "l",
         "u", "d", "e", " ", "u", "n", "d", "e", "r", "s", "t", "a", "n", "d",
         "i", "n", "g", " ", "t", "h", "e", " ", "c", "o", "r", "e", " ", "p",
         "r", "i", "n", "c", "i", "p", "l", "e", "s", ",", " ", "f", "o", "l",
         "l", "o", "w", "i", "n", "g", " ", "b", "e", "s", "t", " ", "p", "r",
         "a", "c", "t", "i", "c", "e", "s", ",", " ", "a", "n", "d", " ", "c",
         "o", "n", "t", "i", "n", "u", "o", "u", "s", "l", "y", " ", "m", "o",
         "n", "i", "t", "o", "r", "i", "n", "g", " ", "a", "n", "d", " ", "o",
         "p", "t", "i", "m", "i", "z", "i", "n", "g", " ", "y", "o", "u", "r",
         " ", "i", "m", "p", "l", "e", "m", "e", "n", "t", "a", "t", "i", "o",
         "n", "s", ".", " ", "A", "s", " ">>,
       \* " continues to evolve, staying updated with the latest developments and co
       \* mmunity best practices will ensure your continued success.\n"
       <<" ", "c", "o", "n", "t", "i", "n", "u", "e", "s", " ", "t", "o", " ",
         "e", "v", "o", "l", "v", "e", ",", " ", "s", "t", "a", "y", "i", "n",
         "g", " ", "u", "p", "d", "a", "t", "e", "d", " ", "w", "i", "t", "h",
         " ", "t", "h", "e", " ", "l", "a", "t", "e", "s", "t", " ", "d", "e",
         "v", "e", "l", "o", "p", "m", "e", "n", "t", "s", " ", "a", "n", "d",
         " ", "c", "o", "m", "m", "u", "n", "i", "t", "y", " ", "b", "e", "s",
         "t", " ", "p", "r", "a", "c", "t", "i", "c", "e", "s", " ", "w", "i",
         "l", "l", " ", "e", "n", "s", "u", "r", "e", " ", "y", "o", "u", "r",
         " ", "c", "o", "n", "t", "i", "n", "u", "e", "d", " ", "s", "u", "c",
         "c", "e", "s", "s", ".", "\n">>,
       \* "Throughout this guide, we've explored the essential aspects of "
       <<"T", "h", "r", "o", "u", "g", "h", "o", "u", "t", " ", "t", "h", "i",
         "s", " ", "g", "u", "i", "d", "e", ",", " ", "w", "e", "'", "v", "e",
         " ", "e", "x", "p", "l", "o", "r", "e", "d", " ", "t", "h", "e", " ",
         "e", "s", "s", "e", "n", "t", "i", "a", "l", " ", "a", "s", "p", "e",
         "c", "t", "s", " ", "o", "f", " ">>,
       \* ", from fundamental concepts to practical implementation strategies. By fo
       \* llowing the best practices and examples provided, you'll be well-equipped 
       \* to successfully implement "
       <<",", " ", "f", "r", "o", "m", " ", "f", "u", "n", "d", "a", "m", "e",
         "n", "t", "a", "l", " ", "c", "o", "n", "c", "e", "p", "t", "s", " ",
         "t", "o", " ", "p", "r", "a", "c", "t", "i", "c", "a", "l", " ", "i",
         "m", "p", "l", "e", "m", "e", "n", "t", "a", "t", "i", "o", "n", " ",
         "s", "t", "r", "a", "t", "e", "g", "i", "e", "s", ".", " ", "B", "y",
         " ", "f", "o", "l", "l", "o", "w", "i", "n", "g", " ", "t", "h", "e",
         " ", "b", "e", "s", "t", " ", "p", "r", "a", "c", "t", "i", "c", "e",
         "s", " ", "a", "n", "d", " ", "e", "x", "a", "m", "p", "l", "e", "s",
         " ", "p", "r", "o", "v", "i", "d", "e", "d", ",", " ", "y", "o", "u",
         "'", "l", "l", " ", "b", "e", " ", "w", "e", "l", "l", "-", "e", "q",
         "u", "i", "p", "p", "e", "d", " ", "t", "o", " ", "s", "u", "c", "c",
         "e", "s", "s", "f", "u", "l", "l", "y", " ", "i", "m", "p", "l", "e",
         "m", "e", "n", "t", " ">>,
       \* " in your projects."
       <<" ", "i", "n", " ", "y", "o", "u", "r", " ", "p", "r", "o", "j", "e",
         "c", "t", "s", ".">> >>

\* the mock blog post of the fallback branch
HttpFallbackBlogPost(topic, target_audience, keywords, now) ==
    [title |-> HttpBlogText[1] \o topic \o HttpBlogText[2] \o str_title(target_audience) \o HttpBlogText[3],
     introduction |-> ConcatAll(<<
            HttpBlogText[4], topic, HttpBlogText[5], topic,
            HttpBlogText[6] >>),
     content |-> ConcatAll(<<
            HttpBlogText[7], topic, HttpBlogText[8], topic,
            HttpBlogText[9], topic, HttpBlogText[10], topic,
            HttpBlogText[11], topic, HttpBlogText[12], topic,
            HttpBlogText[13], topic, HttpBlogText[14], topic,
            HttpBlogText[15], topic, HttpBlogText[16], topic,
            HttpBlogText[17], topic, HttpBlogText[18], topic,
            HttpBlogText[19], topic, HttpBlogText[20], topic,
            HttpBlogText[21], topic, HttpBlogText[22], topic,
            HttpBlogText[23], topic, HttpBlogText[24], topic,
            HttpBlogText[25], topic, HttpBlogText[26] >>),
     conclusion |-> ConcatAll(<<
            HttpBlogText[27], topic, HttpBlogText[28], topic,
            HttpBlogText[29] >>),
     word_count |-> 1250,
     reading_time |-> 6,
     sections |-> 5,
     keywords |-> keywords,
     generated_at |-> now]

(***************************************************************************)
(* handle_call_tool (the tool-protocol dispatcher)                         *)
(***************************************************************************)
\* json.dumps(value, indent=2): the text that encodes value
json_dumps(value) == [json |-> value]

\* the text of a message that is not JSON
Message(text) == [message |-> text]

\* the text is the encoding of a value, not a message
IsJson(text) == "json" \in DOMAIN text

\* [TextContent(type="text", text=text)]
TextContent(text) == << [type |-> "text", text |-> text] >>

\* not x, for a string, a list or a dictionary
Falsy(x) == DOMAIN x = {}

\* the adjustment of the section list to desired_length
AdjustSections(outline, topic, desired_length) ==
    LET sections ==
            IF desired_length = "short" THEN SubSeq(outline.sections, 1, 4)
            ELSE IF desired_length = "long"
              THEN outline.sections \o <<
                     Section(T_AdvancedTechniques, D_Advanced \o topic, 500),
                     Section(T_PerformanceConsiderations, D_Performance \o topic, 300) >>
            ELSE outline.sections
    IN [outline EXCEPT !.sections = sections]

\* the adjustment of the section list to desired_length, and the new total
AdjustLength(outline, topic, desired_length) ==
    LET adjusted == AdjustSections(outline, topic, desired_length)
    IN [adjusted EXCEPT !.estimated_total_words = SumWords(adjusted.sections)]

\* name == "generate_blog_outline"
handle_generate_blog_outline(arguments, now) ==
    LET topic == Get(arguments, "topic", << >>)
        target_audience == Get(arguments, "target_audience", A_Intermediate)
        keywords == Get(arguments, "keywords", << >>)
        desired_length == Get(arguments, "desired_length", "medium")
    IN IF Falsy(topic)
         THEN TextContent(Message("Error: Topic is required for blog outline generation"))
         ELSE TextContent(json_dumps(
                AdjustLength(generate_blog_outline(topic, target_audience, keywords, now),
                             topic, desired_length)))

\* the outline the complete-blog branch hands to the synthesizer: the section
\* list is adjusted, the total is the one generate_blog_outline computed
CompleteBlogOutline(arguments, now) ==
    LET topic == Get(arguments, "topic", << >>)
        target_audience == Get(arguments, "target_audience", A_Intermediate)
        keywords == Get(arguments, "keywords", << >>)
        desired_length == Get(arguments, "desired_length", "medium")
    IN AdjustSections(generate_blog_outline(topic, target_audience, keywords, now),
                      topic, desired_length)

\* name == "generate_complete_blog"
handle_generate_complete_blog(arguments, now, rnd) ==
    LET topic == Get(arguments, "topic", << >>)
        complete_blog ==
            generate_complete_blog_post(CompleteBlogOutline(arguments, now), rnd, now)
        validation_results == validate_blog_post(complete_blog)
    IN IF Falsy(topic)
         THEN TextContent(Message("Error: Topic is required for blog generation"))
         ELSE TextContent(json_dumps(
                [validation |-> validation_results] @@ complete_blog))

\* name == "validate_blog_post"
handle_validate_blog_post(arguments) ==
    LET post == Get(arguments, "blog_post", << >>)
    IN IF Falsy(post)
         THEN TextContent(Message("Error: Blog post content is required for validation"))
         ELSE TextContent(json_dumps(validate_blog_post(post)))

business_rules ==
    [structure |->
        [title |-> [min_length |-> 40, max_length |-> 80,
                    requirements |-> <<"Must be SEO-friendly",
                                       "Should pose a question or state problem/solution">>],
         introduction |-> [min_words |-> 150, max_words |-> 300,
                           requirements |-> <<"Must summarize the problem and solution",
                                              "Should hook the reader">>],
         main_body |-> [min_sections |-> 3,
                        requirements |-> <<"Clear headings", "Logical flow",
                                           "Technical terms defined",
                                           "Code snippets formatted">>],
         conclusion |-> [min_words |-> 100, max_words |-> 200,
                         requirements |-> <<"Summarize key points",
                                            "Provide actionable insights">>]],
     quality |->
        [technical_accuracy |-> <<"Cross-reference with reputable sources",
                                  "Verify code snippets">>,
         clarity |-> <<"Average sentence length <= 20 words",
                       "Paragraphs <= 5-7 sentences", "Use active voice">>,
         originality |-> <<"Must be original content", "Proper citation required">>,
         tone |-> <<"Informative and professional", "Helpful and encouraging">>],
     seo |->
        [keywords |-> <<"1-3% keyword density", "Keywords in first paragraph",
                        "Use long-tail keywords">>,
         linking |-> <<"Minimum 2 internal links", "Minimum 3 external links",
                       "Descriptive anchor text">>,
         media |-> <<"Descriptive alt text", "Optimized file sizes",
                     "Media supports content">>],
     validation |->
        [automated_checks |-> <<"Length validation", "Keyword density", "Link validation">>,
         review_process |-> <<"Technical accuracy review", "Clarity assessment",
                              "Quality control">>]]

\* variant: a section that is not a key of the rule set is a KeyError, which
\* the caller reports
handle_get_business_rules_strict(arguments) ==
    LET section == Get(arguments, "section", "all")
    IN IF section = "all" THEN TextContent(json_dumps(business_rules))
       ELSE IF section \in DOMAIN business_rules
         THEN TextContent(json_dumps(business_rules[section]))
       ELSE TextContent(Message(<<"Error: KeyError", section>>))

\* name == "get_business_rules"
handle_get_business_rules(arguments) ==
    LET section == Get(arguments, "section", "all")
    IN TextContent(json_dumps(
         IF section = "all" THEN business_rules
         ELSE Get(business_rules, section, << >>)))

\* the final else branch
handle_unknown_tool(name) == TextContent(Message(<<"Error: Unknown tool", name>>))

\* variant: a name that is none of the four tools is served the rule set
handle_call_tool_default(name, arguments, now, rnd) ==
    CASE name = "generate_blog_outline" -> handle_generate_blog_outline(arguments, now)
      [] name = "generate_complete_blog" -> handle_generate_complete_blog(arguments, now, rnd)
      [] name = "validate_blog_post" -> handle_validate_blog_post(arguments)
      [] OTHER -> handle_get_business_rules(arguments)

\* rnd and now are the random choices and the clock reading of the call
handle_call_tool(name, arguments, now, rnd) ==
    CASE name = "generate_blog_outline" -> handle_generate_blog_outline(arguments, now)
      [] name = "generate_complete_blog" -> handle_generate_complete_blog(arguments, now, rnd)
      [] name = "validate_blog_post" -> handle_validate_blog_post(arguments)
      [] name = "get_business_rules" -> handle_get_business_rules(arguments)
      [] OTHER -> handle_unknown_tool(name)

(***************************************************************************)
(* blog.py: the HTTP route /validate.                                      *)
(***************************************************************************)
\* jsonify(value), status
jsonify(value, status) == [status |-> status, json |-> value]

\* POST /validate with the JSON body data
validate_blog(data) ==
    IF Falsy(data) \/ "blog_post" \notin DOMAIN data
      THEN jsonify([error |-> "Blog post data is required"], 400)
      ELSE jsonify(validate_blog_content(data["blog_post"]), 200)

\* the rules of the fallback branch
HttpFallbackRules ==
    [title |-> [min_length |-> 40, max_length |-> 80,
                requirements |-> <<"Should be descriptive and engaging",
                                   "Should include relevant keywords",
                                   "Should clearly indicate the target audience">>],
     introduction |-> [min_words |-> 150, max_words |-> 300,
                       requirements |-> <<"Should provide clear context",
                                          "Should state the value proposition",
                                          "Should outline what will be covered">>],
     main_body |-> [min_sections |-> 3,
                    requirements |-> <<"Should have logical organization",
                                       "Should include practical examples",
                                       "Should maintain consistent tone">>],
     conclusion |-> [min_words |-> 100, max_words |-> 200,
                     requirements |-> <<"Should summarize key points",
                                        "Should provide actionable next steps",
                                        "Should not introduce new information">>],
     seo |-> [keyword_density |-> [min |-> 1, max |-> 3],
              requirements |-> <<"Minimum 2 internal links",
                                 "Minimum 3 external links to authoritative sources",
                                 "Proper heading structure (H1, H2, H3)",
                                 "Meta description optimization">>]]

\* GET /business-rules; blog_generator is None, so the fallback rules are served
get_business_rules == jsonify(HttpFallbackRules, 200)

(***************************************************************************)
(* The server: a client holds one blog post mapping and calls the tools    *)
(* and the validator in any order.                                         *)
(***************************************************************************)
\* a mapping with the given keys left out
Without(d, absent) == [k \in DOMAIN d \ absent |-> d[k]]

\* blog posts a client submits: every field absent (-1) or built to a size
BlogPostShapes ==
    [kind : {"blog_post"},
     title : {-1, 0, TitleMin},
     words : {-1, 0, IntroMin, IntroMax + 1},
     cwords : {-1, ConclMin - 1, ConclMax},
     heads : {-1, 0, MinSections},
     frags : {<< >>, <<"fence", "h3">>}]

MakeBlogPost(sh) ==
    Without([title |-> MakeTitle(IF sh.title < 0 THEN 0 ELSE sh.title, "x"),
             introduction |-> MakeText(IF sh.words < 0 THEN 0 ELSE sh.words, PlainStyle),
             conclusion |-> MakeText(IF sh.cwords < 0 THEN 0 ELSE sh.cwords, PlainStyle),
             content |-> MakeContent(IF sh.heads < 0 THEN 0 ELSE sh.heads,
                                     IF sh.heads <= 0 THEN << >> ELSE sh.frags)],
            (IF sh.title < 0 THEN {"title"} ELSE {})
              \cup (IF sh.words < 0 THEN {"introduction"} ELSE {})
              \cup (IF sh.cwords < 0 THEN {"conclusion"} ELSE {})
              \cup (IF sh.heads < 0 THEN {"content"} ELSE {}))

Topics == {<<"X">>}

\* arguments of an outline request; absent keys are left out of the mapping
OutlineArguments ==
    {Without([topic |-> t, target_audience |-> a[1], keywords |-> a[2], desired_length |-> l],
             (IF t = <<"-">> THEN {"topic"} ELSE {})
               \cup (IF a[1] = "-" THEN {"target_audience", "keywords"} ELSE {})
               \cup (IF l = "-" THEN {"desired_length"} ELSE {})) :
        t \in Topics \cup {<<"-">>, << >>},
        a \in {<<"-", << >> >>, <<A_Advanced, << <<"k">>, <<"q">> >> >>},
        l \in {"-", "short", "medium", "long"}}

Sections == {"-", "all", "structure", "quality", "seo", "validation", "pricing"}

\* names that are none of the four tools, and arguments sent with them
UnknownNames == {"invalid_tool", "validate", "Generate_Blog_Outline", ""}

UnknownArguments ==
    {<< >>, [topic |-> <<"X">>], [section |-> "seo"], [blog_post |-> [title |-> <<"X">>]]}

\* what a later operation does to the ghost record
Between == [seen EXCEPT !.between = (seen.first # None)]

Validated(report) ==
    IF seen.first = None THEN [seen EXCEPT !.first = report]
    ELSE [seen EXCEPT !.again = TRUE]

\* a client builds the mapping it is going to validate
SubmitBlogPost ==
    \E sh \in BlogPostShapes :
        /\ blog_post = None
        /\ sh.heads <= 0 => sh.frags = << >>
        /\ blog_post' = MakeBlogPost(sh)
        /\ shape' = sh
        /\ op' = "submit"
        /\ input' = None
        /\ ret' = None
        /\ last_outline' = None
        /\ UNCHANGED <<seen, random_state>>

\* BlogGenerator.validate_blog_post called directly on the client's mapping
CallValidateBlogPostMethod ==
    /\ blog_post # None
    /\ op' = "BlogGenerator.validate_blog_post"
    /\ input' = blog_post
    /\ ret' = validate_blog_post(blog_post)
    /\ seen' = Validated(ret')
    /\ last_outline' = None
    /\ UNCHANGED <<blog_post, shape, random_state>>

\* handle_call_tool("validate_blog_post", {"blog_post": ...}) or with no argument
CallValidateBlogPost ==
    \E given \in BOOLEAN :
        /\ blog_post # None
        /\ op' = "validate_blog_post"
        /\ input' = IF given THEN [blog_post |-> blog_post] ELSE << >>
        /\ ret' = handle_call_tool("validate_blog_post", input', None, None)
        /\ seen' = IF given /\ ~Falsy(blog_post) THEN Validated(ret'[1].text.json)
                   ELSE Between
        /\ last_outline' = None
        /\ UNCHANGED <<blog_post, shape, random_state>>

\* handle_call_tool("generate_blog_outline", arguments)
CallGenerateBlogOutline ==
    \E arguments \in OutlineArguments, now \in 0..MaxClock :
        /\ op' = "generate_blog_outline"
        /\ input' = arguments
        /\ ret' = handle_call_tool("generate_blog_outline", arguments, now, None)
        /\ seen' = Between
        /\ last_outline' = IF IsJson(ret'[1].text) THEN ret'[1].text.json ELSE None
        /\ UNCHANGED <<blog_post, shape, random_state>>

\* handle_call_tool("get_business_rules", arguments)
CallGetBusinessRules ==
    \E section \in Sections :
        /\ op' = "get_business_rules"
        /\ input' = IF section = "-" THEN << >> ELSE [section |-> section]
        /\ ret' = handle_call_tool("get_business_rules", input', None, None)
        /\ seen' = Between
        /\ last_outline' = None
        /\ UNCHANGED <<blog_post, shape, random_state>>

\* handle_call_tool with a name that is none of the four tools
CallUnknownTool ==
    \E name \in UnknownNames, arguments \in UnknownArguments :
        /\ op' = "unknown_tool"
        /\ input' = [name |-> name, arguments |-> arguments]
        /\ ret' = handle_call_tool(name, arguments, 0, None)
        /\ seen' = Between
        /\ last_outline' = None
        /\ UNCHANGED <<blog_post, shape, random_state>>

\* POST /validate with the client's mapping, or with an empty body
HttpValidateBlog ==
    \E given \in BOOLEAN :
        /\ blog_post # None
        /\ op' = "/validate"
        /\ input' = IF given THEN [blog_post |-> blog_post] ELSE << >>
        /\ ret' = validate_blog(input')
        /\ seen' = Between
        /\ last_outline' = None
        /\ UNCHANGED <<blog_post, shape, random_state>>

\* GET /business-rules
HttpGetBusinessRules ==
    /\ op' = "/business-rules"
    /\ input' = << >>
    /\ ret' = get_business_rules
    /\ seen' = Between
    /\ last_outline' = None
    /\ UNCHANGED <<blog_post, shape, random_state>>

Init ==
    /\ op = "init"
    /\ input = None
    /\ shape = None
    /\ ret = None
    /\ blog_post = None
    /\ seen = NotSeen
    /\ last_outline = None
    /\ random_state = 0

Next ==
    \/ SubmitBlogPost
    \/ CallValidateBlogPostMethod
    \/ CallValidateBlogPost
    \/ CallGenerateBlogOutline
    \/ CallGetBusinessRules
    \/ CallUnknownTool
    \/ HttpValidateBlog
    \/ HttpGetBusinessRules

Spec == Init /\ [][Next]_vars

(***************************************************************************)
(* blog.py: the HTTP routes /generate-outline and /generate-complete.      *)
(* blog_generator.py defines no BlogGenerator, so the import at the top of *)
(* blog.py fails and both routes run their fallback branch.  The value of  *)
(* the "keywords" key of a request body is tagged: [list |-> ...] for a    *)
(* JSON array, [str |-> ...] for a JSON string.                            *)
(***************************************************************************)
Max(S) == CHOOSE x \in S : \A y \in S : x >= y

\* s.split(c)
RECURSIVE split_on(_, _)
split_on(s, c) ==
    LET at == {i \in 1..Len(s) : s[i] = c}
    IN IF at = {} THEN <<s>>
       ELSE <<SubSeq(s, 1, Min(at) - 1)>> \o split_on(SubSeq(s, Min(at) + 1, Len(s)), c)

\* s.strip()
strip(s) ==
    LET ink == {i \in 1..Len(s) : ~IsSpace(s[i])}
    IN IF ink = {} THEN << >> ELSE SubSeq(s, Min(ink), Max(ink))

\* data.get('keywords', []), split at the commas when it is a string
HttpKeywords(data) ==
    LET keywords == Get(data, "keywords", [list |-> << >>])
    IN IF "str" \in DOMAIN keywords
         THEN LET fields == split_on(keywords.str, ",")
              IN SelectSeq([i \in 1..Len(fields) |-> strip(fields[i])],
                           LAMBDA k : k # << >>)
         ELSE keywords.list

\* POST /generate-outline
generate_outline(data, now) ==
    IF Falsy(data) \/ "topic" \notin DOMAIN data
      THEN jsonify([error |-> "Topic is required"], 400)
      ELSE jsonify(HttpFallbackOutline(data.topic,
                                       Get(data, "target_audience", A_Intermediate),
                                       HttpKeywords(data),
                                       Get(data, "desired_length", "medium"),
                                       now),
                   200)

\* POST /generate-complete
generate_complete_blog(data, now) ==
    IF Falsy(data) \/ "topic" \notin DOMAIN data
      THEN jsonify([error |-> "Topic is required"], 400)
      ELSE LET blog_post_ == HttpFallbackBlogPost(data.topic,
                                 Get(data, "target_audience", A_Intermediate),
                                 HttpKeywords(data), now)
               validation_results == validate_blog_content(blog_post_)
           IN jsonify([validation |-> validation_results] @@ blog_post_, 200)

(***************************************************************************)
(* The content synthesizer and the request handlers of the two surfaces,   *)
(* one call at a time: the initial state holds the call and what it draws  *)
(* (random choices, clock), one action serves it.                          *)
(***************************************************************************)
MaxTopicLen == 28
MaxKeywords == 3

\* "Machine Learning with Python, Docker and Kubernetes"
TopicText ==
    <<"M", "a", "c", "h", "i", "n", "e", " ", "L", "e", "a", "r", "n", "i",
      "n", "g", " ", "w", "i", "t", "h", " ", "P", "y", "t", "h", "o", "n",
      ",", " ", "D", "o", "c", "k", "e", "r", " ", "a", "n", "d", " ", "K",
      "u", "b", "e", "r", "n", "e", "t", "e", "s">>

\* a topic of n characters
MakeTopic(n) == [i \in 1..n |-> TopicText[((i - 1) % Len(TopicText)) + 1]]

KeywordPool ==
    << <<"d", "o", "c", "k", "e", "r">>, <<"c", "i">>, <<"d", "e", "v", "o", "p", "s">>,
       <<"k", "8", "s">> >>

\* the first n keywords of the pool (which is read in a circle)
MakeKeywords(n) == [i \in 1..n |-> KeywordPool[((i - 1) % Len(KeywordPool)) + 1]]

\* keyword counts; -1 is one keyword of 40 characters
KeywordShapes == (0..MaxKeywords) \cup {-1}

BuildKeywords(n) == IF n = -1 THEN << Rep("k", 40) >> ELSE MakeKeywords(n)

Audiences ==
    {A_Beginner, A_Intermediate, A_Advanced, <<"p", "r", "o">>,
     <<"t", "e", "c", "h", " ", "l", "E", "A", "D">>}

\* the results of the five random.choice calls of one blog post
Selections ==
    [title : 1..7, introduction : 1..3, hook : 1..3, conclusion : 1..3, cta : 1..3]

FirstSelection == [title |-> 1, introduction |-> 1, hook |-> 1, conclusion |-> 1, cta |-> 1]

LastSelection == [title |-> 7, introduction |-> 3, hook |-> 3, conclusion |-> 3, cta |-> 3]

\* every choice of every call is made by some selection of the sample
SampleSelections ==
    {r \in Selections :
        Cardinality({f \in DOMAIN r : r[f] # FirstSelection[f]}) <= 1} \cup {LastSelection}

TitleRequests ==
    [kind : {"title"}, topic : 0..MaxTopicLen, audience : Audiences,
     keywords : KeywordShapes, choice : 1..7]

TextRequests ==
    [kind : {"paragraph"}, topic : {1, MaxTopicLen}, audience : Audiences,
     keywords : KeywordShapes, template : 1..3, sentence : 1..3]

\* the keywords of the six categories
CategoryKeywords ==
    {CoreConceptsKeywords[1], CoreConceptsKeywords[2], CoreConceptsKeywords[3], CoreConceptsKeywords[4],
     ImplementationKeywords[1], ImplementationKeywords[2], ImplementationKeywords[3], ImplementationKeywords[4],
     BestPracticesKeywords[1], BestPracticesKeywords[2], BestPracticesKeywords[3],
     ExamplesKeywords[1], ExamplesKeywords[2], ExamplesKeywords[3], ExamplesKeywords[4],
     AdvancedKeywords[1], AdvancedKeywords[2], AdvancedKeywords[3],
     PerformanceKeywords[1], PerformanceKeywords[2], PerformanceKeywords[3]}

\* "Implementation Guide"
E_ImplementationGuide ==
    <<"I", "m", "p", "l", "e", "m", "e", "n", "t", "a", "t", "i", "o", "n",
      " ", "G", "u", "i", "d", "e">>

\* "Best Practices"
E_BestPractices ==
    <<"B", "e", "s", "t", " ", "P", "r", "a", "c", "t", "i", "c", "e", "s">>

\* "FooBar"
E_FooBar ==
    <<"F", "o", "o", "B", "a", "r">>

\* "Best Practices Guide"
E_BestPracticesGuide ==
    <<"B", "e", "s", "t", " ", "P", "r", "a", "c", "t", "i", "c", "e", "s",
      " ", "G", "u", "i", "d", "e">>

\* "Getting Started"
E_GettingStarted ==
    <<"G", "e", "t", "t", "i", "n", "g", " ", "S", "t", "a", "r", "t", "e",
      "d">>

\* "Setup"
E_Setup ==
    <<"S", "e", "t", "u", "p">>

\* "FAQ"
E_FAQ ==
    <<"F", "A", "Q">>

\* "## Notes"
E_HeadedNotes ==
    <<"#", "#", " ", "N", "o", "t", "e", "s">>

\* "INTRODUCTION"
E_INTRODUCTION ==
    <<"I", "N", "T", "R", "O", "D", "U", "C", "T", "I", "O", "N">>


\* section titles: the examples, every keyword, every two keywords in a row
SectionTitles ==
    {E_ImplementationGuide, E_BestPractices, E_FooBar, E_BestPracticesGuide,
     E_GettingStarted, E_Setup, E_FAQ, T_Introduction, T_Conclusion}
      \cup {str_title(k) : k \in CategoryKeywords}
      \cup {str_title(a) \o <<" ">> \o [i \in 1..Len(b) |-> upper_char(b[i])] :
                a \in CategoryKeywords, b \in CategoryKeywords}

SectionTitleRequests == [kind : {"section title"}, title : SectionTitles]

\* section lists of an outline handed to the synthesizer directly
Plans == {"none", "frame", "headed", "two", "generic", "framed", "short", "medium", "long"}

OutlineRequests ==
    {sh \in [kind : {"outline"}, topic : {-1, 0, 1}, plan : Plans,
             rnd : SampleSelections, now : {0}] :
        sh.plan \notin {"none", "generic"}
            => sh.topic = 1 /\ sh.rnd \in {FirstSelection, LastSelection}}

GenericSections ==
    << Section(E_GettingStarted, E_Setup, 100), Section(E_Setup, << >>, 100),
       [title |-> E_FAQ] >>

MakeOutline(sh) ==
    LET topic == MakeTopic(sh.topic)
        built == generate_blog_outline(topic, A_Advanced, MakeKeywords(2), sh.now)
    IN CASE sh.plan = "none" ->
              Without([topic |-> topic], IF sh.topic < 0 THEN {"topic"} ELSE {})
         [] sh.plan = "generic" ->
              Without([topic |-> topic, sections |-> GenericSections],
                      IF sh.topic < 0 THEN {"topic"} ELSE {})
         [] sh.plan = "frame" ->
              [topic |-> topic,
               sections |-> << Section(T_Introduction, << >>, 100),
                               Section(E_INTRODUCTION, << >>, 100),
                               Section(T_Conclusion, << >>, 100) >>]
         [] sh.plan = "headed" ->
              [topic |-> topic, sections |-> << Section(E_FAQ, E_HeadedNotes, 100) >>]
         [] sh.plan = "two" ->
              [topic |-> topic, sections |-> SubSeq(GenericSections, 1, 2)]
         [] sh.plan = "framed" ->
              [topic |-> topic,
               sections |-> << Section(E_INTRODUCTION, << >>, 100) >> \o GenericSections
                               \o << Section(T_Conclusion, << >>, 100) >>]
         [] OTHER -> AdjustSections(built, topic, sh.plan)

ToolRequests ==
    [kind : {"tool"}, name : {"generate_blog_outline", "generate_complete_blog"},
     arguments : OutlineArguments, rnd : {FirstSelection, LastSelection}, now : {0}]

\* "k, q,, "
KeywordString == <<"k", ",", " ", "q", ",", ",", " ">>

\* request bodies; absent keys are left out of the mapping
HttpData ==
    {Without([topic |-> t, target_audience |-> A_Beginner, keywords |-> k,
              desired_length |-> l],
             (IF t = <<"-">> THEN {"topic"} ELSE {})
               \cup (IF k = None THEN {"target_audience", "keywords"} ELSE {})
               \cup (IF l = "-" THEN {"desired_length"} ELSE {})) :
        t \in Topics \cup {<<"-">>, << >>},
        k \in {None, [list |-> MakeKeywords(2)], [str |-> KeywordString]},
        l \in {"-", "short"}}

HttpRequests ==
    [kind : {"http"}, route : {"/generate-outline", "/generate-complete"},
     data : HttpData, now : {0}]

\* pairs of contents of which the second has as many words as the first or a
\* few more
MaxContentWords == 570
MaxMoreWords == 2

ContentRequests ==
    [kind : {"contents"}, words : 0..MaxContentWords, more : 0..MaxMoreWords,
     style : TextStyles]

\* the arguments of the call
BuildRequest(sh) ==
    CASE sh.kind \in {"title", "paragraph"} ->
           [topic |-> MakeTopic(sh.topic), audience |-> sh.audience,
            keywords |-> BuildKeywords(sh.keywords)]
      [] sh.kind = "section title" -> sh.title
      [] sh.kind = "outline" -> MakeOutline(sh)
      [] sh.kind = "tool" -> [name |-> sh.name, arguments |-> sh.arguments]
      [] sh.kind = "http" -> [route |-> sh.route, data |-> sh.data]
      [] sh.kind = "contents" ->
           <<MakeText(sh.words, sh.style), MakeText(sh.words + sh.more, sh.style)>>

GenerateTitle ==
    shape.kind = "title"
        /\ Apply("_generate_title",
                 _generate_title(input.topic, input.keywords, input.audience, shape.choice))

GenerateIntroduction ==
    shape.kind = "paragraph"
        /\ Apply("_generate_introduction",
                 _generate_introduction(input.topic, input.audience, input.keywords,
                                        shape.template, shape.sentence))

GenerateConclusion ==
    shape.kind = "paragraph"
        /\ Apply("_generate_conclusion",
                 _generate_conclusion(input.topic, input.audience, input.keywords,
                                      shape.template, shape.sentence))

ClassifySectionType ==
    shape.kind = "section title"
        /\ Apply("_classify_section_type", _classify_section_type(input))

GenerateCompleteBlogPost ==
    shape.kind = "outline"
        /\ Apply("generate_complete_blog_post",
                 generate_complete_blog_post(input, shape.rnd, shape.now))

\* _calculate_reading_time(content), for each content of the pair
CalculateReadingTime ==
    shape.kind = "contents"
        /\ Apply("_calculate_reading_time",
                 <<_calculate_reading_time(input[1]), _calculate_reading_time(input[2])>>)

\* handle_call_tool("generate_blog_outline", arguments)
ToolGenerateBlogOutline ==
    /\ op = "init"
    /\ shape.kind = "tool"
    /\ input.name = "generate_blog_outline"
    /\ op' = input.name
    /\ ret' = handle_call_tool(input.name, input.arguments, shape.now, shape.rnd)
    /\ last_outline' = IF IsJson(ret'[1].text) THEN ret'[1].text.json ELSE None
    /\ UNCHANGED <<input, shape, blog_post, seen, random_state>>

\* handle_call_tool("generate_complete_blog", arguments)
ToolGenerateCompleteBlog ==
    /\ op = "init"
    /\ shape.kind = "tool"
    /\ input.name = "generate_complete_blog"
    /\ op' = input.name
    /\ ret' = handle_call_tool(input.name, input.arguments, shape.now, shape.rnd)
    /\ last_outline' = IF IsJson(ret'[1].text)
                         THEN CompleteBlogOutline(input.arguments, shape.now)
                         ELSE None
    /\ UNCHANGED <<input, shape, blog_post, seen, random_state>>

HttpGenerateOutline ==
    /\ op = "init"
    /\ shape.kind = "http"
    /\ input.route = "/generate-outline"
    /\ op' = input.route
    /\ ret' = generate_outline(input.data, shape.now)
    /\ last_outline' = IF ret'.status = 200 THEN ret'.json ELSE None
    /\ UNCHANGED <<input, shape, blog_post, seen, random_state>>

HttpGenerateComplete ==
    shape.kind = "http" /\ input.route = "/generate-complete"
        /\ Apply(input.route, generate_complete_blog(input.data, shape.now))

InitBlog ==
    /\ op = "init"
    /\ shape \in TitleRequests \cup TextRequests \cup SectionTitleRequests
                   \cup OutlineRequests \cup ToolRequests \cup HttpRequests
                   \cup ContentRequests
    /\ input = BuildRequest(shape)
    /\ ret = None
    /\ blog_post = None
    /\ seen = NotSeen
    /\ last_outline = None
    /\ random_state = 0

NextBlog ==
    \/ GenerateTitle
    \/ GenerateIntroduction
    \/ GenerateConclusion
    \/ ClassifySectionType
    \/ GenerateCompleteBlogPost
    \/ CalculateReadingTime
    \/ ToolGenerateBlogOutline
    \/ ToolGenerateCompleteBlog
    \/ HttpGenerateOutline
    \/ HttpGenerateComplete

SpecBlog == InitBlog /\ [][NextBlog]_vars


(***************************************************************************)
(* Interleaved calls.  random.choice reads and advances the one generator  *)
(* of the module random, which every call of the process shares.  Seeded,  *)
(* the generator yields a fixed sequence of values: random_state is the    *)
(* number of values drawn so far, and the value at each position is a      *)
(* function of the seed.  A handler runs from its first statement to its   *)
(* return without yielding (handle_call_tool holds no await), so a call is *)
(* one step.                                                               *)
(***************************************************************************)
MaxCalls == 2
MaxSeed == 6

\* the value the generator seeded with seed yields at position state
RandomValue(seed, state) == seed + state

\* random.choice on a list of n elements: the index of the element it returns
random_choice(seed, state, n) == (RandomValue(seed, state) % n) + 1

\* the five random.choice calls of one blog post, in the order of the source
RandomSelection(seed, state) ==
    [title |-> random_choice(seed, state, 7),
     introduction |-> random_choice(seed, state + 1, 3),
     hook |-> random_choice(seed, state + 2, 3),
     conclusion |-> random_choice(seed, state + 3, 3),
     cta |-> random_choice(seed, state + 4, 3)]

\* the number of random.choice calls a tool call makes
RandomDraws(name, arguments) ==
    IF name = "generate_complete_blog" /\ ~Falsy(Get(arguments, "topic", << >>))
      THEN 5 ELSE 0

\* the requests clients make
CallRequests ==
    {[name |-> "generate_complete_blog",
      arguments |-> [topic |-> <<"X">>, desired_length |-> "short"]],
     [name |-> "generate_complete_blog",
      arguments |-> [topic |-> <<"Y">>, keywords |-> << <<"q">> >>,
                     desired_length |-> "short"]],
     [name |-> "generate_blog_outline",
      arguments |-> [topic |-> <<"Z">>, keywords |-> << <<"k">> >>,
                     desired_length |-> "long"]],
     [name |-> "validate_blog_post",
      arguments |-> [blog_post |-> [title |-> <<"W">>]]]}

CallShapes == [kind : {"calls"}, seed : 0..MaxSeed, calls : [1..MaxCalls -> CallRequests]]

\* call c is made and not yet served: it has no response
Pending(c) == ret[c] = << >>

\* the server takes up call c and runs its handler to the end
Serve(c, name) ==
    /\ Pending(c)
    /\ input[c].name = name
    /\ op' = name
    /\ ret' = [ret EXCEPT ![c] =
                 handle_call_tool(name, input[c].arguments, 0,
                                  RandomSelection(shape.seed, random_state))]
    /\ random_state' = random_state + RandomDraws(name, input[c].arguments)
    /\ seen' = [seen EXCEPT ![c] = random_state]
    /\ UNCHANGED <<input, shape, blog_post, last_outline>>

ServeGenerateCompleteBlog == \E c \in 1..MaxCalls : Serve(c, "generate_complete_blog")

ServeGenerateBlogOutline == \E c \in 1..MaxCalls : Serve(c, "generate_blog_outline")

ServeValidateBlogPost == \E c \in 1..MaxCalls : Serve(c, "validate_blog_post")

\* the calls are made; seen[c] is the generator state call c started from, -1
\* before it starts
InitCalls ==
    /\ op = "init"
    /\ shape \in CallShapes
    /\ input = shape.calls
    /\ ret = [c \in 1..MaxCalls |-> << >>]
    /\ blog_post = None
    /\ seen = [c \in 1..MaxCalls |-> -1]
    /\ last_outline = None
    /\ random_state = 0

NextCalls ==
    \/ ServeGenerateCompleteBlog
    \/ ServeGenerateBlogOutline
    \/ ServeValidateBlogPost

SpecCalls == InitCalls /\ [][NextCalls]_vars

(***************************************************************************)
(* Properties of the field checks.                                         *)
(***************************************************************************)
\* the pieces of the content under test, heading lines included
Pieces == Rep("h2", shape.heads) \o shape.frags

Count(b) == IF b THEN 1 ELSE 0

IntroResult ==
    IF op = "validate_blog_content" THEN ret.validations.introduction ELSE ret

IntroChecked ==
    \/ op = "validate_introduction"
    \/ op = "validate_blog_content" /\ shape.words >= 0

C3_ConclusionWordCountAndValidity ==
    op = "validate_conclusion" =>
        /\ ret.word_count = shape.words
        /\ ret.valid = (100 <= shape.words /\ shape.words <= 200)
        /\ shape.words \in {99, 201} => Len(ret.errors) = 1 /\ ~ret.valid

C3_Witness ==
    /\ op = "validate_conclusion"
    /\ shape.words = 201
    /\ Len(shape.style.sep) = 2
    /\ Len(ret.errors) = 1
    /\ ~ret.valid

\* C4: validate_content_structure is valid exactly when at least 3 lines
\* begin with '## ' (deeper headings not counted) and the number of fence
\* markers is even; an odd number of markers always gives the unclosed code
\* block error and valid = false.
C4_StructureValidIffSectionsAndFences ==
    op = "validate_content_structure" =>
        /\ ret.main_sections = H2Lines(Pieces)
        /\ ret.valid = (H2Lines(Pieces) >= 3 /\ Fences(Pieces) % 2 = 0)
        /\ Fences(Pieces) % 2 = 1 =>
              /\ ~ret.valid
              /\ \E i \in 1..Len(ret.errors) : ret.errors[i] = <<"Unclosed code block detected">>

C4_Witness ==
    /\ op = "validate_content_structure"
    /\ shape.heads = 3
    /\ shape.frags = <<"fence", "h3", "fence">>
    /\ ret.valid
    /\ ret.main_sections = 3

\* C5: external_links is the number of Markdown links to an http or https
\* URL; fewer than 3 adds exactly one warning and no error, so the link count
\* never changes valid.
C5_LinksOnlyWarn ==
    op = "validate_content_structure" =>
        /\ ret.external_links = MarkdownLinks(Pieces)
        /\ Len(ret.warnings) = Count(MarkdownLinks(Pieces) < 3)
        /\ Len(ret.errors) = Count(H2Lines(Pieces) < 3) + Count(Fences(Pieces) % 2 = 1)
        /\ (MarkdownLinks(Pieces) = 0 /\ H2Lines(Pieces) = 3 /\ Fences(Pieces) % 2 = 0) =>
              ret.valid /\ ret.external_links = 0 /\ Len(ret.warnings) = 1 /\ ret.errors = << >>

C5_Witness ==
    /\ op = "validate_content_structure"
    /\ shape.heads = 3
    /\ shape.frags = <<"ftp", "bare", "http">>
    /\ ret.valid
    /\ ret.external_links = 1
    /\ Len(ret.warnings) = 1

(***************************************************************************)
(* Properties of validate_blog_post and of the outline tool.               *)
(***************************************************************************)
\* the report of the validation that ran last, None when there is none
LastReport ==
    IF op = "BlogGenerator.validate_blog_post" THEN ret
    ELSE IF op = "validate_blog_post" /\ IsJson(ret[1].text) THEN ret[1].text.json
    ELSE None

\* the entries a report must have for the fields the client supplied
ExpectedEntries ==
    (IF shape.title >= 0 THEN {"title"} ELSE {})
      \cup (IF shape.words >= 0 THEN {"introduction"} ELSE {})
      \cup (IF shape.cwords >= 0 THEN {"conclusion"} ELSE {})
      \cup (IF shape.heads >= 0 THEN {"structure"} ELSE {})

\* the errors the supplied fields must give, none for an absent one
ExpectedErrors ==
    Count(shape.title >= 0 /\ (shape.title < 40 \/ shape.title > 80))
      + Count(shape.words >= 0 /\ (shape.words < 150 \/ shape.words > 300))
      + Count(shape.cwords >= 0 /\ (shape.cwords < 100 \/ shape.cwords > 200))
      + Count(shape.heads >= 0 /\ shape.heads < 3)
      + Count(shape.heads > 0 /\ Fences(shape.frags) % 2 = 1)

\* C6: validate_blog_post runs the check of a field exactly when the key is
\* present: an absent key gives no entry and no error, a key present with the
\* empty string gives an entry that fails; no field at all gives
\* overall_valid = true and zero errors.
C6_ChecksRunIffKeyPresent ==
    LastReport # None =>
        /\ DOMAIN LastReport.validations = ExpectedEntries
        /\ LastReport.summary.total_errors = ExpectedErrors
        /\ shape.title = 0 => ~LastReport.validations["title"].valid
        /\ shape.words = 0 => ~LastReport.validations["introduction"].valid
        /\ shape.heads = 0 => ~LastReport.validations["structure"].valid
        /\ DOMAIN blog_post = {} =>
              LastReport.overall_valid /\ LastReport.summary.total_errors = 0

C6_Witness ==
    /\ op = "BlogGenerator.validate_blog_post"
    /\ DOMAIN blog_post = {"title"}
    /\ blog_post["title"] = << >>
    /\ DOMAIN ret.validations = {"title"}
    /\ ~ret.validations["title"].valid
    /\ ret.summary.total_errors = 1

RECURSIVE SumOver(_, _, _)
SumOver(entries, keys, field) ==
    IF keys = {} THEN 0
    ELSE LET k == CHOOSE x \in keys : TRUE
         IN Len(entries[k][field]) + SumOver(entries, keys \ {k}, field)

\* C7: in every report overall_valid is the conjunction of the valid flags of
\* the checks that were run, and total_errors / total_warnings are the sums of
\* the lengths of their errors / warnings lists.
C7_ReportAggregates ==
    LastReport # None =>
        LET entries == LastReport.validations
        IN /\ LastReport.overall_valid = (\A k \in DOMAIN entries : entries[k].valid)
           /\ LastReport.summary.total_errors = SumOver(entries, DOMAIN entries, "errors")
           /\ LastReport.summary.total_warnings = SumOver(entries, DOMAIN entries, "warnings")

C7_Witness ==
    /\ op = "validate_blog_post"
    /\ LastReport # None
    /\ DOMAIN LastReport.validations = {"title", "introduction", "conclusion", "structure"}
    /\ ~LastReport.overall_valid
    /\ LastReport.summary.total_errors = 3
    /\ LastReport.summary.total_warnings = 2

\* C8 as stated: the validate_blog_post operation returns a validation report
\* for every mapping it is given, the empty mapping included.
C8_AlwaysAReport ==
    (op = "validate_blog_post" /\ "blog_post" \in DOMAIN input) => LastReport # None

Plan(outline) ==
    [i \in 1..Len(outline.sections) |->
        <<outline.sections[i].title, outline.sections[i].estimated_words>>]

BasePlan ==
    << <<T_Introduction, 200>>, <<T_CoreConcepts, 400>>, <<T_ImplementationGuide, 600>>,
       <<T_BestPracticesTitle, 300>>, <<T_RealWorldExamples, 400>>, <<T_Conclusion, 150>> >>

LongPlan ==
    BasePlan \o << <<T_AdvancedTechniques, 500>>, <<T_PerformanceConsiderations, 300>> >>

C11_OutlineTotalIsSum ==
    last_outline # None =>
        /\ Len(last_outline.sections) > 0
        /\ last_outline.estimated_total_words
             = SumWords(last_outline.sections)

\* the request mapping of an outline or complete-blog request
RequestData == IF shape.kind = "tool" THEN input.arguments ELSE input.data

TopicGiven == "topic" \in DOMAIN RequestData /\ RequestData["topic"] # << >>

\* the response is the topic-required error of the surface
TopicRejected ==
    IF shape.kind = "tool"
      THEN /\ Len(ret) = 1
           /\ ret[1].text \in
                {Message("Error: Topic is required for blog outline generation"),
                 Message("Error: Topic is required for blog generation")}
      ELSE ret = [status |-> 400, json |-> [error |-> "Topic is required"]]

\* C12: on the tool-protocol surface and on the HTTP surface, an outline or
\* complete-blog request whose topic is missing or empty is answered with the
\* topic-required error and builds no outline and no blog post; a request with
\* a topic that is not empty is never answered with that error.
C12_TopicRequired ==
    op \in {"generate_blog_outline", "generate_complete_blog",
            "/generate-outline", "/generate-complete"} =>
        /\ TopicRejected <=> ~TopicGiven
        /\ TopicRejected => last_outline = None

(***************************************************************************)
(* Properties of the dispatcher.                                           *)
(***************************************************************************)
\* C13: generate_complete_blog_post called with an outline whose topic key is
\* absent or empty fails with an invalid-argument error and returns no blog
\* post.
C13_NoTopicIsRejected ==
    (op = "generate_complete_blog_post"
        /\ ("topic" \notin DOMAIN input \/ input["topic"] = << >>)) =>
        /\ "error" \in DOMAIN ret
        /\ "content" \notin DOMAIN ret

\* C14: a tool call whose name is none of the four tools returns one text
\* response, the unknown-tool message with the given name, whatever the
\* arguments are, and it builds no outline and returns no report or rule set.
C14_UnknownToolMessage ==
    op = "unknown_tool" =>
        /\ input.name \notin {"generate_blog_outline", "generate_complete_blog",
                              "validate_blog_post", "get_business_rules"}
        /\ Len(ret) = 1
        /\ ret[1].type = "text"
        /\ ret[1].text = [message |-> <<"Error: Unknown tool", input.name>>]
        /\ last_outline = None

C14_Witness ==
    /\ op = "unknown_tool"
    /\ input.name = "validate"
    /\ "blog_post" \in DOMAIN input.arguments
    /\ blog_post # None
    /\ C14_UnknownToolMessage

\* C15: get_business_rules never fails: with no section or with section "all"
\* it returns the whole rule set, with one of the four section keys that
\* subsection, with any other section an empty mapping; and the rule set is the
\* same in every call, whatever was called before.
C15_BusinessRulesBySection ==
    op = "get_business_rules" =>
        LET section == IF "section" \in DOMAIN input THEN input.section ELSE "all"
            rules == ret[1].text.json
        IN /\ Len(ret) = 1
           /\ "json" \in DOMAIN ret[1].text
           /\ section = "all" =>
                /\ DOMAIN rules = {"structure", "quality", "seo", "validation"}
                /\ rules = business_rules
                /\ rules.structure.title.min_length = 40
           /\ section \in {"structure", "quality", "seo", "validation"} =>
                rules = business_rules[section]
           /\ section \notin {"all", "structure", "quality", "seo", "validation"} =>
                DOMAIN rules = {}

C15_Witness ==
    /\ op = "get_business_rules"
    /\ "section" \in DOMAIN input
    /\ input.section = "pricing"
    /\ seen.between
    /\ DOMAIN ret[1].text.json = {}

(***************************************************************************)
(* Properties of the content synthesizer.                                  *)
(***************************************************************************)
\* the sections of a plan whose titles are not introduction or conclusion
PlanSections(plan) ==
    CASE plan \in {"none", "frame"} -> 0
      [] plan = "headed" -> 1
      [] plan = "two" -> 2
      [] plan \in {"generic", "framed", "short"} -> 3
      [] plan = "medium" -> 4
      [] plan = "long" -> 6

\* C16: for every outline with at least 3 sections whose titles are not
\* introduction or conclusion, and every random selection, the content that
\* generate_complete_blog_post produces has, under validate_content_structure,
\* at least 3 main sections and at least 4 external links, so no section-count
\* error and no link-count warning.
C16_GeneratedContentStructure ==
    (op = "generate_complete_blog_post" /\ PlanSections(shape.plan) >= 3) =>
        LET check == validate_content_structure(ret.content)
        IN /\ Len(ret.sections) = PlanSections(shape.plan)
           /\ check.main_sections >= 3
           /\ check.main_sections = PlanSections(shape.plan) + 2
           /\ check.external_links >= 4
           /\ \A e \in DOMAIN check.errors :
                check.errors[e][1] # "Insufficient main sections"
           /\ check.warnings = << >>

C16_Witness ==
    /\ op = "generate_complete_blog_post"
    /\ shape.plan = "framed"
    /\ shape.rnd = LastSelection
    /\ validate_content_structure(ret.content).main_sections = 5
    /\ validate_content_structure(ret.content).external_links = 4

\* C17: the title the synthesizer returns has between 40 and 80 characters, for
\* every topic, audience, keyword list and pattern, so validate_title finds it
\* valid.
C17_GeneratedTitleLength ==
    op = "_generate_title" =>
        /\ 40 <= Len(ret) /\ Len(ret) <= 80
        /\ validate_title(ret).valid

\* C18: for every outline of the outline builder (short, medium or long, any
\* audience, any keywords) and every random selection, the blog post of the
\* complete-blog operation has an introduction of 150 to 300 words and a
\* conclusion of 100 to 200 words, so both attached validations are valid.
C18_GeneratedParagraphLengths ==
    (op = "generate_complete_blog" /\ "json" \in DOMAIN ret[1].text) =>
        LET blog == ret[1].text.json
        IN /\ 150 <= SplitLen(blog.introduction) /\ SplitLen(blog.introduction) <= 300
           /\ 100 <= SplitLen(blog.conclusion) /\ SplitLen(blog.conclusion) <= 200
           /\ blog.validation.validations["introduction"].valid
           /\ blog.validation.validations["conclusion"].valid

\* the title of the chosen pattern, and the suffix made of the first keywords
BaseTitle == _generate_title(input.topic, << >>, input.audience, shape.choice)

KeywordSuffix ==
    <<" ", "-", " ">>
      \o (IF Len(input.keywords) = 1 THEN input.keywords[1]
          ELSE input.keywords[1] \o <<",", " ">> \o input.keywords[2])

\* C19: the keyword suffix is appended to the title of the chosen pattern if
\* and only if that title is shorter than 50 characters, there is a keyword,
\* and the title with the suffix has at most 80 characters; otherwise the title
\* of the pattern is returned as it is.  A title with the suffix is never
\* longer than 80 characters.
C19_KeywordSuffix ==
    op = "_generate_title" =>
        /\ IF /\ Len(BaseTitle) < 50
              /\ input.keywords # << >>
              /\ Len(BaseTitle) + Len(KeywordSuffix) <= 80
             THEN ret = BaseTitle \o KeywordSuffix
             ELSE ret = BaseTitle
        /\ ret # BaseTitle => Len(ret) <= 80

C19_Witness ==
    /\ op = "_generate_title"
    /\ shape.choice = 2
    /\ shape.keywords = 3
    /\ Len(BaseTitle) = 49
    /\ ret = BaseTitle \o KeywordSuffix
    /\ Len(ret) = 62

\* the categories in the order the classifier tries them
CategoryOrder ==
    << [type |-> "core_concepts",
        keywords |-> {CoreConceptsKeywords[1], CoreConceptsKeywords[2], CoreConceptsKeywords[3], CoreConceptsKeywords[4]}],
       [type |-> "implementation",
        keywords |-> {ImplementationKeywords[1], ImplementationKeywords[2], ImplementationKeywords[3], ImplementationKeywords[4]}],
       [type |-> "best_practices",
        keywords |-> {BestPracticesKeywords[1], BestPracticesKeywords[2], BestPracticesKeywords[3]}],
       [type |-> "examples",
        keywords |-> {ExamplesKeywords[1], ExamplesKeywords[2], ExamplesKeywords[3], ExamplesKeywords[4]}],
       [type |-> "advanced_techniques",
        keywords |-> {AdvancedKeywords[1], AdvancedKeywords[2], AdvancedKeywords[3]}],
       [type |-> "performance",
        keywords |-> {PerformanceKeywords[1], PerformanceKeywords[2], PerformanceKeywords[3]}] >>

\* the categories one of whose keywords occurs in the lower-cased title
Matching(title) ==
    {c \in 1..6 : \E k \in CategoryOrder[c].keywords :
        \E i \in 1..Len(title) :
            /\ i + Len(k) - 1 <= Len(title)
            /\ \A j \in 1..Len(k) : lower_char(title[i + j - 1]) = k[j]}

\* C20: the classifier returns the first category, in the order core_concepts,
\* implementation, best_practices, examples, advanced_techniques, performance,
\* one of whose keywords occurs in the lower-cased title, and generic when
\* there is none: Implementation Guide is implementation, Best Practices is
\* best_practices, FooBar is generic, and Best Practices Guide, which matches
\* two categories, gets the earlier one.
C20_FirstMatchingCategory ==
    op = "_classify_section_type" =>
        /\ ret = IF Matching(input) = {} THEN "generic"
                 ELSE CategoryOrder[Min(Matching(input))].type
        /\ input = E_ImplementationGuide => ret = "implementation"
        /\ input = E_BestPractices => ret = "best_practices"
        /\ input = E_FooBar => ret = "generic"
        /\ input = E_BestPracticesGuide => ret = "implementation"

C20_Witness ==
    /\ op = "_classify_section_type"
    /\ input = E_BestPracticesGuide
    /\ Matching(input) = {2, 3}
    /\ ret = "implementation"

(***************************************************************************)
(* Properties of the assembled blog post.                                  *)
(***************************************************************************)
\* "## CombineText[7] and Further Reading\n\n- [Official Documentation](https://e
\* xample.com/docs)\n- [Community Resources](https://example.com/community)\n
\* - [Best Practices Guide](https://example.com/best-practices)\n- [Advanced 
\* Tutorials](https://example.com/tutorials)\n\n"
ReferencesBlock ==
    <<"#", "#", " ", "R", "e", "f", "e", "r", "e", "n", "c", "e", "s", " ",
      "a", "n", "d", " ", "F", "u", "r", "t", "h", "e", "r", " ", "R", "e",
      "a", "d", "i", "n", "g", "\n", "\n", "-", " ", "[", "O", "f", "f", "i",
      "c", "i", "a", "l", " ", "D", "o", "c", "u", "m", "e", "n", "t", "a",
      "t", "i", "o", "n", "]", "(", "h", "t", "t", "p", "s", ":", "/", "/",
      "e", "x", "a", "m", "p", "l", "e", ".", "c", "o", "m", "/", "d", "o",
      "c", "s", ")", "\n", "-", " ", "[", "C", "o", "m", "m", "u", "n", "i",
      "t", "y", " ", "R", "e", "s", "o", "u", "r", "c", "e", "s", "]", "(",
      "h", "t", "t", "p", "s", ":", "/", "/", "e", "x", "a", "m", "p", "l",
      "e", ".", "c", "o", "m", "/", "c", "o", "m", "m", "u", "n", "i", "t",
      "y", ")", "\n", "-", " ", "[", "B", "e", "s", "t", " ", "P", "r", "a",
      "c", "t", "i", "c", "e", "s", " ", "G", "u", "i", "d", "e", "]", "(",
      "h", "t", "t", "p", "s", ":", "/", "/", "e", "x", "a", "m", "p", "l",
      "e", ".", "c", "o", "m", "/", "b", "e", "s", "t", "-", "p", "r", "a",
      "c", "t", "i", "c", "e", "s", ")", "\n", "-", " ", "[", "A", "d", "v",
      "a", "n", "c", "e", "d", " ", "T", "u", "t", "o", "r", "i", "a", "l",
      "s", "]", "(", "h", "t", "t", "p", "s", ":", "/", "/", "e", "x", "a",
      "m", "p", "l", "e", ".", "c", "o", "m", "/", "t", "u", "t", "o", "r",
      "i", "a", "l", "s", ")", "\n", "\n">>

\* "## Conclusion\n\n"
ConclusionHeading ==
    <<"#", "#", " ", "C", "o", "n", "c", "l", "u", "s", "i", "o", "n", "\n",
      "\n">>

\* the first line of the content: the level-1 heading with the title
TitleLine(title) == <<"#", " ">> \o title \o <<"\n", "\n">>

\* the conclusion under its level-2 heading
ConclusionBlock(conclusion) == ConclusionHeading \o conclusion \o <<"\n", "\n">>

BlogPostKeys ==
    {"title", "introduction", "content", "conclusion", "sections", "keywords",
     "target_audience", "metadata", "generated_at", "word_count",
     "estimated_reading_time"}

\* C21: generate_complete_blog_post on an outline with no section, or with
\* introduction and conclusion sections only, does not fail: it returns a blog
\* post with an empty sections list, whose content is the title line, the
\* introduction, the conclusion block and the references block, in that order.
C21_NoSectionsStillAssembles ==
    (op = "generate_complete_blog_post" /\ PlanSections(shape.plan) = 0) =>
        /\ DOMAIN ret = BlogPostKeys
        /\ ret.sections = << >>
        /\ ret.content = TitleLine(ret.title) \o ret.introduction \o <<"\n", "\n">>
                           \o ConclusionBlock(ret.conclusion) \o ReferencesBlock

C21_Witness ==
    /\ op = "generate_complete_blog_post"
    /\ shape.plan = "frame"
    /\ Len(input.sections) = 3
    /\ ret.sections = << >>
    /\ Len(ret.content) > Len(ReferencesBlock)

\* the sections of the outline given to generate_complete_blog_post
OutlineSections == IF "sections" \in DOMAIN input THEN input.sections ELSE << >>

\* the positions of the outline sections that are to be generated
BodyPositions ==
    {i \in 1..Len(OutlineSections) :
        LET t == OutlineSections[i].title
        IN [k \in 1..Len(t) |-> lower_char(t[k])]
             \notin {<<"i", "n", "t", "r", "o", "d", "u", "c", "t", "i", "o", "n">>,
                     <<"c", "o", "n", "c", "l", "u", "s", "i", "o", "n">>}}

\* the j-th of them, counted from the start of the outline
BodyPosition(j) ==
    CHOOSE i \in BodyPositions : Cardinality({k \in BodyPositions : k <= i}) = j

\* C24: generate_complete_blog_post generates one section for each outline
\* section whose lower-cased title is neither introduction nor conclusion and
\* none for the others, in the order of the outline and with the title of the
\* outline section unchanged; for the outlines of the complete-blog tool that
\* is 3 sections for short, 4 for medium and 6 for long.
C24_OneSectionPerBodySection ==
    /\ op = "generate_complete_blog_post" =>
          /\ Len(ret.sections) = Cardinality(BodyPositions)
          /\ \A j \in 1..Len(ret.sections) :
                ret.sections[j].title = OutlineSections[BodyPosition(j)].title
          /\ shape.plan = "short" => Len(ret.sections) = 3
          /\ shape.plan = "medium" => Len(ret.sections) = 4
          /\ shape.plan = "long" => Len(ret.sections) = 6
    /\ (op = "generate_complete_blog" /\ IsJson(ret[1].text)) =>
          Len(ret[1].text.json.sections)
            = LET desired_length == Get(input.arguments, "desired_length", "medium")
              IN CASE desired_length = "short" -> 3
                   [] desired_length = "medium" -> 4
                   [] desired_length = "long" -> 6

C24_Witness ==
    /\ op = "generate_complete_blog_post"
    /\ shape.plan = "framed"
    /\ Len(input.sections) = 5
    /\ BodyPositions = {2, 3, 4}
    /\ Len(ret.sections) = 3
    /\ ret.sections[3].title = E_FAQ

\* the number of whitespace-delimited tokens of s, counted at their last
\* characters
Tokens(s) ==
    Cardinality({i \in 1..Len(s) :
        s[i] \notin {" ", "\t", "\n", "\r", "\f"}
            /\ (i = Len(s) \/ s[i+1] \in {" ", "\t", "\n", "\r", "\f"})})

\* the level-2 heading line of a section
HeadingLine(title) == <<"#", "#", " ">> \o title \o <<"\n">>

\* the category the classifier is to give a title
Category(title) ==
    IF Matching(title) = {} THEN "generic"
    ELSE CategoryOrder[Min(Matching(title))].type

\* C25: every generated section, of whatever section_type, has a content that
\* begins with the level-2 heading line of its title, the section_type the
\* classifier gives its title, and a word_count equal to the number of
\* whitespace-delimited tokens of its content; a section whose type has no
\* generator of its own has the content of the generic generator.
C25_GeneratedSectionFields ==
    op = "generate_complete_blog_post" =>
        \A j \in 1..Len(ret.sections) :
            LET section == ret.sections[j]
                given == OutlineSections[BodyPosition(j)]
            IN /\ DOMAIN section = {"title", "content", "word_count", "section_type"}
               /\ Len(section.content) >= Len(HeadingLine(section.title))
               /\ SubSeq(section.content, 1, Len(HeadingLine(section.title)))
                     = HeadingLine(section.title)
               /\ section.section_type = Category(section.title)
               /\ section.word_count = Tokens(section.content)
               /\ section.section_type = "generic" =>
                     section.content
                       = _generate_generic_section(
                             ret.metadata.topic, given.title,
                             Get(given, "description", << >>),
                             Get(given, "estimated_words", 300),
                             ret.target_audience, ret.keywords)

C25_Witness ==
    /\ op = "generate_complete_blog_post"
    /\ shape.plan = "generic"
    /\ Len(ret.sections) = 3
    /\ \A j \in 1..3 : ret.sections[j].section_type = "generic"
    /\ "description" \notin DOMAIN OutlineSections[3]
    /\ ret.sections[3].word_count = Tokens(ret.sections[3].content)
    /\ ret.sections[3].word_count \notin {0, 300}

\* the contents of the generated sections, each followed by a blank line
RECURSIVE SectionBlocks(_)
SectionBlocks(sections) ==
    IF sections = << >> THEN << >>
    ELSE Head(sections).content \o <<"\n", "\n">> \o SectionBlocks(Tail(sections))

\* the number of links to an https address in s
HttpsLinks(s) ==
    Cardinality({i \in 1..Len(s) - 9 :
        SubSeq(s, i, i + 9) = <<"]", "(", "h", "t", "t", "p", "s", ":", "/", "/">>})

\* the content of a blog post, put together from its fields
Assembled(post) ==
    TitleLine(post.title) \o post.introduction \o <<"\n", "\n">>
      \o SectionBlocks(post.sections)
      \o ConclusionBlock(post.conclusion) \o ReferencesBlock

\* C26: the content of every generated blog post is, in this order and with
\* nothing else, the title line, the introduction, the content of each
\* generated section in the order of the outline, the conclusion block and
\* the references block, which holds exactly 4 https links; so the title,
\* introduction and conclusion fields are the texts embedded in the content.
C26_ContentIsAssembledFromFields ==
    /\ HttpsLinks(ReferencesBlock) = 4
    /\ op = "generate_complete_blog_post" => ret.content = Assembled(ret)
    /\ (op = "generate_complete_blog" /\ IsJson(ret[1].text)) =>
          ret[1].text.json.content = Assembled(ret[1].text.json)

C26_Witness ==
    /\ op = "generate_complete_blog_post"
    /\ shape.plan = "medium"
    /\ shape.rnd = LastSelection
    /\ Len(ret.sections) = 4
    /\ Len(SectionBlocks(ret.sections)) > 4 * 100
    /\ ret.content = Assembled(ret)

\* the integer nearest to n / 225; 225 is odd, so no n lies halfway
Nearest225(n) ==
    CHOOSE k \in 0..n : 2 * (n - 225 * k) < 225 /\ 2 * (225 * k - n) < 225

\* the reading time of a content of n words
ReadingTime(n) == IF Nearest225(n) > 1 THEN Nearest225(n) ELSE 1

DerivedFields(post) ==
    /\ post.word_count = Tokens(post.content)
    /\ post.estimated_reading_time = ReadingTime(post.word_count)

\* C27: the word_count of every generated blog post is the number of
\* whitespace-delimited tokens of its content and its estimated_reading_time
\* is the larger of 1 and the integer nearest to word_count / 225; the
\* reading time of a content is at least 1, is 1 up to 337 words, and is not
\* smaller for a content with more words.
C27_WordCountAndReadingTime ==
    /\ op = "generate_complete_blog_post" => DerivedFields(ret)
    /\ (op = "generate_complete_blog" /\ IsJson(ret[1].text)) =>
          DerivedFields(ret[1].text.json)
    /\ op = "_calculate_reading_time" =>
          /\ \A i \in 1..2 :
                /\ ret[i] = ReadingTime(Tokens(input[i]))
                /\ ret[i] >= 1
                /\ Tokens(input[i]) <= 337 => ret[i] = 1
          /\ Tokens(input[1]) <= Tokens(input[2]) => ret[1] <= ret[2]

C27_Witness ==
    /\ op = "generate_complete_blog_post"
    /\ ret.word_count > 337
    /\ ret.word_count = Tokens(ret.content)
    /\ ret.estimated_reading_time > 1
    /\ ret.estimated_reading_time = ReadingTime(ret.word_count)

\* s has no line break, no grave accent and no Markdown link
Plain(s) ==
    /\ \A i \in 1..Len(s) : s[i] \notin {"\n", "\r", BQ}
    /\ \A i \in 1..Len(s) - 1 : ~(s[i] = "]" /\ s[i+1] = "(")

\* the topic, the keywords and the titles and descriptions of the sections of
\* an outline are plain
PlainOutline(outline) ==
    /\ Plain(Get(outline, "topic", << >>))
    /\ \A k \in DOMAIN Get(outline, "keywords", << >>) : Plain(outline.keywords[k])
    /\ \A j \in DOMAIN Get(outline, "sections", << >>) :
          /\ Plain(outline.sections[j].title)
          /\ Plain(Get(outline.sections[j], "description", << >>))

\* the structure counts of the content generated from an outline
StructureCounts ==
    LET check == validate_content_structure(ret.content)
    IN /\ check.main_sections = Len(ret.sections) + 2
       /\ CodeBlocks(ret.content) % 2 = 0
       /\ \A e \in DOMAIN check.errors :
            check.errors[e][1] # "Unclosed code block detected"
       /\ check.external_links = 4
       /\ check.valid = (Len(ret.sections) >= 1)

\* C29 as stated: for every outline whose texts are plain, the content that
\* generate_complete_blog_post produces has, under validate_content_structure,
\* two main sections more than the sections generated, an even number of
\* triple grave accents, so no unclosed code block, and exactly 4 external
\* links; the structure is valid exactly when a section was generated.
C29_Original ==
    (op = "generate_complete_blog_post" /\ PlainOutline(input)) => StructureCounts

\* no description of a section begins with a level-2 heading marker
NoHeadingDescription(outline) ==
    \A j \in DOMAIN Get(outline, "sections", << >>) :
        ~LitAt(Get(outline.sections[j], "description", << >>), 1, <<"#", "#", " ">>)

\* C29: for every outline whose texts are plain and of which no section
\* description begins with "## ", the content that generate_complete_blog_post
\* produces has two main sections more than the sections generated, an even
\* number of triple grave accents and exactly 4 external links, and its
\* structure is valid exactly when a section was generated; a description
\* that begins with "## " is counted as one more main section.
C29_GeneratedStructureCounts ==
    op = "generate_complete_blog_post" =>
        /\ (PlainOutline(input) /\ NoHeadingDescription(input)) => StructureCounts
        /\ shape.plan = "headed" =>
              validate_content_structure(ret.content).main_sections
                  = Len(ret.sections) + 3

C29_Witness ==
    /\ op = "generate_complete_blog_post"
    /\ PlainOutline(input)
    /\ shape.plan = "long"
    /\ Len(ret.sections) = 6
    /\ CodeBlocks(ret.content) > 0
    /\ validate_content_structure(ret.content).main_sections = 8
    /\ validate_content_structure(ret.content).external_links = 4
    /\ validate_content_structure(ret.content).valid

\* a generated content without sections fails the structure check
C29_WitnessNoSections ==
    /\ op = "generate_complete_blog_post"
    /\ PlainOutline(input)
    /\ ret.sections = << >>
    /\ validate_content_structure(ret.content).main_sections = 2
    /\ ~validate_content_structure(ret.content).valid

(***************************************************************************)
(* Properties of interleaved calls.                                        *)
(***************************************************************************)
\* the response call c gets when it is the only call the server receives
ServedAlone(c) ==
    handle_call_tool(input[c].name, input[c].arguments, 0,
                     RandomSelection(shape.seed, 0))

\* C22: interleaved calls are independent: whatever the order in which the
\* calls are served, the result of a call is the one it gets when it is served
\* alone, it carries the keywords of its own arguments, and the generator
\* state a call draws from was written by no other call.
C22_CallsIndependent ==
    \A c \in 1..MaxCalls :
        ret[c] # << >> =>
            /\ ret[c] = ServedAlone(c)
            /\ ("json" \in DOMAIN ret[c][1].text
                    /\ "keywords" \in DOMAIN ret[c][1].text.json) =>
                   ret[c][1].text.json.keywords
                     = Get(input[c].arguments, "keywords", << >>)
            /\ RandomDraws(input[c].name, input[c].arguments) > 0 => seen[c] = 0

(***************************************************************************)
(* Properties of the two validators.                                       *)
(***************************************************************************)
\* C23: for every blog post that has a title, an introduction, a content and
\* a conclusion, the HTTP validator returns the overall_valid, the total_errors
\* and the total_warnings that the tool validator returned for it.
C23_SameValidationOnBothSurfaces ==
    (/\ op = "/validate"
     /\ "blog_post" \in DOMAIN input
     /\ seen.first # None
     /\ {"title", "introduction", "content", "conclusion"} \subseteq DOMAIN blog_post) =>
        /\ ret.status = 200
        /\ ret.json.overall_valid = seen.first.overall_valid
        /\ ret.json.summary.total_errors = seen.first.summary.total_errors
        /\ ret.json.summary.total_warnings = seen.first.summary.total_warnings

\* valid means no errors in every entry of a report, and overall_valid means
\* no errors in the whole report
ValidIffNoErrors(report) ==
    /\ \A k \in DOMAIN report.validations :
          report.validations[k].valid = (report.validations[k].errors = << >>)
    /\ report.overall_valid = (report.summary.total_errors = 0)

\* C28: in every field validation of the four checks valid is true exactly
\* when the errors list is empty, whatever the warnings are, and in every
\* report of validate_blog_post, and of the HTTP validator, overall_valid is
\* true exactly when total_errors is 0.
C28_ValidIffNoErrors ==
    /\ LastReport # None => ValidIffNoErrors(LastReport)
    /\ (op = "/validate" /\ ret.status = 200) => ValidIffNoErrors(ret.json)

C28_Witness ==
    /\ LastReport # None
    /\ DOMAIN LastReport.validations = {"title", "introduction", "conclusion", "structure"}
    /\ LastReport.validations.title.valid
    /\ LastReport.validations.title.warnings # << >>
    /\ LastReport.validations.structure.valid
    /\ LastReport.validations.structure.warnings # << >>
    /\ ~LastReport.validations.conclusion.valid
    /\ ~LastReport.overall_valid
    /\ LastReport.summary.total_errors = 1
    /\ LastReport.summary.total_warnings = 2

(***************************************************************************)
(* Properties of the reported thresholds.                                  *)
(***************************************************************************)
\* a text of n words
WordsOf(n) == MakeText(n, PlainStyle)

\* a content of n level-2 headings
HeadingsOf(n) == MakeContent(n, << >>)

\* the thresholds of the rules are the numbers of the business rule document
ReportedThresholds(rules) ==
    /\ rules.title.min_length = 40 /\ rules.title.max_length = 80
    /\ rules.introduction.min_words = 150 /\ rules.introduction.max_words = 300
    /\ rules.conclusion.min_words = 100 /\ rules.conclusion.max_words = 200
    /\ rules.main_body.min_sections = 3

\* a value at a threshold of the rules passes the check of the validator, a
\* value one beyond it fails
ThresholdsAreBoundaries(rules) ==
    /\ validate_title(Rep("t", rules.title.min_length)).valid
    /\ ~validate_title(Rep("t", rules.title.min_length - 1)).valid
    /\ validate_title(Rep("t", rules.title.max_length)).valid
    /\ ~validate_title(Rep("t", rules.title.max_length + 1)).valid
    /\ validate_introduction(WordsOf(rules.introduction.min_words)).valid
    /\ ~validate_introduction(WordsOf(rules.introduction.min_words - 1)).valid
    /\ validate_introduction(WordsOf(rules.introduction.max_words)).valid
    /\ ~validate_introduction(WordsOf(rules.introduction.max_words + 1)).valid
    /\ validate_conclusion(WordsOf(rules.conclusion.min_words)).valid
    /\ ~validate_conclusion(WordsOf(rules.conclusion.min_words - 1)).valid
    /\ validate_conclusion(WordsOf(rules.conclusion.max_words)).valid
    /\ ~validate_conclusion(WordsOf(rules.conclusion.max_words + 1)).valid
    /\ validate_content_structure(HeadingsOf(rules.main_body.min_sections)).valid
    /\ ~validate_content_structure(HeadingsOf(rules.main_body.min_sections - 1)).valid

\* the structure rules a call reported, None when it reported none
ReportedStructure ==
    IF op = "/business-rules" THEN ret.json
    ELSE IF op = "get_business_rules" /\ IsJson(ret[1].text)
      THEN IF "structure" \in DOMAIN ret[1].text.json THEN ret[1].text.json.structure
           ELSE IF "title" \in DOMAIN ret[1].text.json THEN ret[1].text.json
           ELSE None
    ELSE None

\* C30: the thresholds that get_business_rules reports for the structure of a
\* post (title 40 / 80 characters, introduction 150 / 300 words, conclusion
\* 100 / 200 words, at least 3 main sections) are the boundaries of the checks
\* of the validator: a value at a threshold is valid, a value one beyond it is
\* invalid.
C30_ThresholdsAreBoundaries ==
    /\ (op = "get_business_rules" /\ Get(input, "section", "all") \in {"all", "structure"})
          => ReportedStructure # None
    /\ op = "/business-rules" => ret.status = 200
    /\ ReportedStructure # None =>
          /\ ReportedThresholds(ReportedStructure)
          /\ ThresholdsAreBoundaries(ReportedStructure)

C30_Witness ==
    /\ op = "get_business_rules"
    /\ Get(input, "section", "all") = "structure"
    /\ seen.first # None
    /\ ReportedStructure # None
    /\ ReportedStructure.introduction.max_words = 300
    /\ validate_introduction(WordsOf(300)).valid
    /\ ~validate_introduction(WordsOf(301)).valid

\* the HTTP route reports the same thresholds
C30_WitnessHttp ==
    /\ op = "/business-rules"
    /\ ReportedStructure # None
    /\ ThresholdsAreBoundaries(ReportedStructure)

====
